---- MODULE Spec2Model ----
(***************************************************************************)
(* Screenshot capture pipeline of mapflight: the retry loop                *)
(* (captureAllScreenshots), the browser session lifecycle (initialize,     *)
(* cleanup) and the program entry point (main), for the two capture        *)
(* scripts: automation/capture.js (variant "full") and                     *)
(* automation/capture-simple.js (variant "simple").                        *)
(*                                                                         *)
(* The program is sequential: one async call chain, every await is a step  *)
(* that either resolves or rejects.  pc is the position of that chain.     *)
(***************************************************************************)
EXTENDS Integers, Sequences, FiniteSets, TLC

\* SCREENSHOT_CONFIG.maxRetries
maxRetries == 3

Variants == {"full", "simple"}
Views == {"overview", "zoom"}

\* this.browser = null / this.page = null
NoHandle == 0
\* The browser launched (page opened) by attempt k is handle k: puppeteer
\* returns a new object from every launch() / newPage().
Handles == 1..maxRetries

\* MAPBOX_ACCESS_TOKEN as main() sees it
Tokens == {"valid", "placeholder"}

FileName(view) == IF view = "overview" THEN "overview.png" ELSE "zoom.png"

St(op, view) == [op |-> op, view |-> view]

\* Mutation of StepsFull: captureZoom() awaited before captureOverview().
StepsFull_ZoomFirst ==
    << St("launch", "none"), St("newPage", "none"), St("setViewport", "none"),
       St("goto", "none"), St("waitForMapReady", "none"),
       St("setView", "zoom"), St("wait", "zoom"),
       St("ensureScreenshotDirectory", "zoom"), St("screenshot", "zoom"),
       St("setView", "overview"), St("wait", "overview"),
       St("ensureScreenshotDirectory", "overview"), St("screenshot", "overview") >>

\* Mutation of StepsFull: navigateToMap() does not call waitForMapReady().
StepsFull_NoGate ==
    << St("launch", "none"), St("newPage", "none"), St("setViewport", "none"),
       St("goto", "none"),
       St("setView", "overview"), St("wait", "overview"),
       St("ensureScreenshotDirectory", "overview"), St("screenshot", "overview"),
       St("setView", "zoom"), St("wait", "zoom"),
       St("ensureScreenshotDirectory", "zoom"), St("screenshot", "zoom") >>

\* The awaited calls of one attempt of ScreenshotCapture, in program order:
\* initialize(); navigateToMap(); captureOverview(); captureZoom().
StepsFull ==
    << St("launch", "none"), St("newPage", "none"), St("setViewport", "none"),
       St("goto", "none"), St("waitForMapReady", "none"),
       St("setView", "overview"), St("wait", "overview"),
       St("ensureScreenshotDirectory", "overview"), St("screenshot", "overview"),
       St("setView", "zoom"), St("wait", "zoom"),
       St("ensureScreenshotDirectory", "zoom"), St("screenshot", "zoom") >>

\* The awaited calls of one attempt of SimpleScreenshotCapture.
StepsSimple ==
    << St("launch", "none"), St("newPage", "none"), St("setViewport", "none"),
       St("goto", "none"),
       St("waitForMapReady", "overview"), St("setView", "overview"),
       St("waitForMapReady", "overview"), St("hideMapUI", "overview"),
       St("wait", "overview"),
       St("ensureScreenshotDirectory", "overview"), St("screenshot", "overview"),
       St("waitForMapReady", "zoom"), St("setView", "zoom"),
       St("wait", "zoom"), St("hideMapUI", "zoom"), St("wait", "zoom"),
       St("ensureScreenshotDirectory", "zoom"), St("screenshot", "zoom") >>

VARIABLES
    variant,        \* which script runs
    token,          \* MAPBOX_ACCESS_TOKEN
    pc,             \* position of the call chain
    idx,            \* index of the next awaited call of the attempt
    retries,        \* let retries
    attempts,       \* number of attempts started
    error,          \* the error caught by the retry loop's catch
    raised,         \* the error captureAllScreenshots threw
    mainError,      \* the error caught by main's catch
    exitCode,       \* process exit code (-1 while running)
    returned,       \* the value captureAllScreenshots returned
    cleanupFrom,    \* caller of the running cleanup(): "retry" or "final"
    browser,        \* this.browser
    page,           \* this.page
    live,           \* browsers launched and not closed
    open,           \* pages opened and not closed
    browserCloses,  \* browser.close() invocations, per browser
    pageCloses,     \* page.close() invocations, per page
    files,          \* screenshot files on disk: name -> attempt that wrote it (0: absent)
    dirExists,      \* the screenshot directory exists
    issued,         \* views whose view change was issued in this attempt
    count,          \* invocations of launch / goto / view change / screenshot,
                    \* and of cleanup() by the retry loop
    sinceFail,      \* what the retry loop did since the last caught failure
    teardownThrew,  \* some retry teardown swallowed a close() error
    log,            \* the awaited calls of this attempt so far, with their outcome
    delays,         \* the delays (ms) waited between attempts so far
    viewport,       \* the viewport of this.page
    gKind,          \* which waitForMapReady is running ("none": none)
    gPhase,         \* which of its waits is running (capture-simple.js has two)
    gClock,         \* ms elapsed since the running wait started
    gStatus,        \* "idle", "waiting", "resolved" or "timeout"
    gTimer,         \* the timeout of the running wait is armed
    gPollAt,        \* time of the next evaluation of the predicate (-1: none)
    gListening,     \* the mapReady listener is registered
    gDispatched,    \* a mapReady event is on its way to the listener
    gConds,         \* the conditions that hold in the page right now
    gSeen,          \* conditions seen to hold by some evaluation of the running wait
    gObserved,      \* per finished wait, the conditions its last evaluation saw
    gPolls,         \* evaluations of the predicate in the running wait
    gSettledAt,     \* gClock when the promise settled (-1: pending)
    point1,         \* first point given to the calculator, [lon, lat] in 1/100 degree
    point2,         \* second point given to the calculator
    applied,        \* the function applied last ("none": none)
    argument,       \* its numeric argument (fraction, or elapsed time)
    result,         \* what it returned
    loadPc,         \* position of the page's initializeApp() / handleMapLoad()
    map,            \* FlightPathMap.map is set
    isInitialized,  \* FlightPathMap.isInitialized
    markerManager,  \* FlightPathMap.markerManager is set
    markers,        \* ids of MarkerManager.markers
    nextMarker,     \* index of the marker createAllMarkers() creates next
    mapReady_sent,  \* mapReady events dispatched on document
    camera,         \* centre and zoom of the map
    flying,         \* the camera animation under way ("none": none)
    listener,       \* a once('moveend') listener of a view call is registered
    call,           \* the view call under way or finished last
    flyTos,         \* map.flyTo() invocations
    lost,           \* moveend events fired for a view call with no listener registered
    timer,          \* debounce: time at which the pending timeout is due (-1: none)
    pending,        \* debounce: arguments captured by the pending timer
    now,            \* debounce: ms elapsed
    called,         \* debounce: the calls of the debounced function, [at, args]
    ran             \* debounce: the runs of func, [at, args]

config == <<variant, token>>
control == <<pc, idx, retries, attempts, error, raised, mainError, exitCode, returned, cleanupFrom>>
session == <<browser, page, live, open, browserCloses, pageCloses>>
disk == <<files, dirExists>>
ghost == <<issued, count, sinceFail, teardownThrew>>
capture == <<config, control, session, disk, ghost, log, delays, viewport>>
gate == <<gKind, gPhase, gClock, gStatus, gTimer, gPollAt, gListening, gDispatched,
          gConds, gSeen, gObserved, gPolls, gSettledAt>>
geo == <<point1, point2, applied, argument, result>>
renderer == <<loadPc, map, isInitialized, markerManager, markers, nextMarker,
              mapReady_sent, camera, flying, listener, call, flyTos, lost>>
debouncer == <<timer, pending, now, called, ran>>
vars == <<capture, gate, geo, renderer, debouncer>>

NoError == [attempt |-> 0, op |-> "none", view |-> "none"]
\* new Error('All screenshot capture attempts failed')
GenericError == [attempt |-> 0, op |-> "All screenshot capture attempts failed", view |-> "none"]
\* new Error('Mapbox access token not configured. ...')
ConfigError == [attempt |-> 0, op |-> "Mapbox access token not configured", view |-> "none"]

\* TypeError: reading results.overview of undefined
TypeErrorUndefined == [attempt |-> 0, op |-> "TypeError", view |-> "none"]

NoResult == [kind |-> "none", overview |-> "", zoom |-> ""]

\* The viewport of a page the script has not configured
NoViewport == [width |-> 0, height |-> 0, deviceScaleFactor |-> 0]
\* page.setViewport({width: 1080, height: 1920, deviceScaleFactor: 1})
Viewport == [width |-> 1080, height |-> 1920, deviceScaleFactor |-> 1]

\* Mutation of retryDelayMs: the delay grows with the number of failed attempts.
retryDelayMs_Linear == (IF variant = "full" THEN 1000 ELSE 2000) * retries

\* SCREENSHOT_CONFIG.retryDelay
retryDelayMs == IF variant = "full" THEN 1000 ELSE 2000

Steps == IF variant = "full" THEN StepsFull ELSE StepsSimple
Step == Steps[idx]
AtStep(op) == pc = "try" /\ Step.op = op

Logged(res) == Append(log, [op |-> Step.op, view |-> Step.view, res |-> res])

\* The awaited call resolved (with outcome res): go on to the next statement
\* of the try block.
ResolveAs(res) ==
    /\ error' = error
    /\ log' = Logged(res)
    /\ IF idx < Len(Steps)
       THEN pc' = "try" /\ idx' = idx + 1
       ELSE pc' = "return" /\ idx' = idx

Resolve == ResolveAs("ok")

\* The awaited call rejected: the method's own catch logs and rethrows, and
\* the error reaches the catch of the retry loop.
RejectAs(res) ==
    /\ pc' = "catch"
    /\ idx' = idx
    /\ log' = Logged(res)
    /\ error' = [attempt |-> attempts, op |-> Step.op, view |-> Step.view]

Reject == RejectAs("rejected")

\* The awaited call never settles: nothing follows.
Hang ==
    /\ pc' = "hung"
    /\ idx' = idx
    /\ log' = Logged("hung")
    /\ error' = error

\* No waitForMapReady is looked into.
GateIdle ==
    /\ gKind = "none"
    /\ gPhase = 1
    /\ gClock = 0
    /\ gStatus = "idle"
    /\ gTimer = FALSE
    /\ gPollAt = -1
    /\ gListening = FALSE
    /\ gDispatched = FALSE
    /\ gConds = {}
    /\ gSeen = {}
    /\ gObserved = << >>
    /\ gPolls = 0
    /\ gSettledAt = -1

\* No function of utils.js is looked into.
GeoIdle ==
    /\ point1 = <<0, 0>>
    /\ point2 = <<0, 0>>
    /\ applied = "none"
    /\ argument = << >>
    /\ result = <<0, 0>>

\* MAP_CONFIG.defaultCenter / defaultZoom, which are MAP_CONFIG.overview's
DefaultCamera == [center |-> "midpoint", zoom |-> 5]

\* No view call has been made.  by: the method; at: where it is; error: the
\* message of the error it threw; n: how many calls were made so far.
NoCall == [by |-> "none", at |-> "idle", error |-> "none", n |-> 0]

\* The page is not looked into.
RendererIdle ==
    /\ loadPc = "none"
    /\ map = FALSE
    /\ isInitialized = FALSE
    /\ markerManager = FALSE
    /\ markers = {}
    /\ nextMarker = 1
    /\ mapReady_sent = 0
    /\ camera = DefaultCamera
    /\ flying = "none"
    /\ listener = FALSE
    /\ call = NoCall
    /\ flyTos = 0
    /\ lost = 0

\* No debounced function is looked into.
DebouncerIdle ==
    /\ timer = -1
    /\ pending = "none"
    /\ now = 0
    /\ called = << >>
    /\ ran = << >>

Init ==
    /\ GateIdle
    /\ GeoIdle
    /\ RendererIdle
    /\ DebouncerIdle
    /\ variant \in Variants
    /\ token \in Tokens
    /\ pc = "main"
    /\ idx = 1
    /\ retries = 0
    /\ attempts = 0
    /\ error = NoError
    /\ raised = NoError
    /\ mainError = NoError
    /\ exitCode = -1
    /\ returned = NoResult
    /\ cleanupFrom = "none"
    /\ browser = NoHandle
    /\ page = NoHandle
    /\ live = {}
    /\ open = {}
    /\ browserCloses = [h \in Handles |-> 0]
    /\ pageCloses = [h \in Handles |-> 0]
    /\ files = [f \in {"overview.png", "zoom.png"} |-> 0]
    /\ dirExists \in BOOLEAN
    /\ issued = {}
    /\ count = [launch |-> 0, goto |-> 0, view |-> 0, shot |-> 0, teardown |-> 0]
    /\ sinceFail = << >>
    /\ teardownThrew = FALSE
    /\ log = << >>
    /\ delays = << >>
    /\ viewport = NoViewport

Bump(field) == [count EXCEPT ![field] = @ + 1]

(***************************************************************************)
(* main(): the access-token check (capture.js only), then                  *)
(* captureAllScreenshots() inside try / catch / finally.                   *)
(***************************************************************************)
main ==
    /\ pc = "main"
    /\ IF variant = "full" /\ token = "placeholder"
       THEN pc' = "mainCatch" /\ mainError' = ConfigError
       ELSE pc' = "while" /\ mainError' = mainError
    /\ UNCHANGED <<config, idx, retries, attempts, error, raised, exitCode,
                   returned, cleanupFrom, session, disk, ghost>>
    /\ UNCHANGED <<log, gate, geo, renderer, debouncer>>
    /\ UNCHANGED <<delays, viewport>>

(***************************************************************************)
(* captureAllScreenshots(): while (retries < maxRetries) { try {...} }.    *)
(* Entering the try block starts an attempt.  Leaving the loop by its      *)
(* guard: capture-simple.js throws a new Error; capture.js falls off the   *)
(* end and returns undefined, which main() then dereferences.              *)
(***************************************************************************)
captureAllScreenshots_while ==
    /\ pc = "while"
    /\ IF retries < maxRetries
       THEN /\ pc' = "try"
            /\ idx' = 1
            /\ attempts' = attempts + 1
            /\ issued' = {}
            /\ sinceFail' = << >>
            /\ log' = << >>
            /\ UNCHANGED <<raised, mainError, returned>>
       ELSE /\ pc' = "mainCatch"
            /\ IF variant = "simple"
               THEN raised' = GenericError /\ mainError' = GenericError
                    /\ returned' = returned
               ELSE raised' = raised /\ mainError' = TypeErrorUndefined
                    /\ returned' = [kind |-> "undefined", overview |-> "", zoom |-> ""]
            /\ UNCHANGED <<idx, attempts, issued, sinceFail, log>>
    /\ UNCHANGED <<config, retries, error, exitCode, cleanupFrom, session, disk,
                   count, teardownThrew>>
    /\ UNCHANGED <<gate, geo, renderer, debouncer>>
    /\ UNCHANGED <<delays, viewport>>

(***************************************************************************)
(* initialize(): this.browser = await puppeteer.launch(...)                *)
(***************************************************************************)
initialize_launch ==
    /\ AtStep("launch")
    /\ count' = Bump("launch")
    /\ \/ /\ browser' = attempts
          /\ live' = live \cup {attempts}
          /\ Resolve
       \/ /\ UNCHANGED <<browser, live>>
          /\ Reject
    /\ UNCHANGED <<config, retries, attempts, raised, mainError, exitCode, returned,
                   cleanupFrom, page, open, browserCloses, pageCloses, disk,
                   issued, sinceFail, teardownThrew>>
    /\ UNCHANGED <<gate, geo, renderer, debouncer>>
    /\ UNCHANGED <<delays, viewport>>

\* Mutation of initialize_newPage: a page is opened only when this.page is
\* not set yet (if (!this.page) this.page = await this.browser.newPage()).
initialize_newPage_Reuse ==
    /\ AtStep("newPage")
    /\ \/ /\ page' = IF page = NoHandle THEN browser ELSE page
          /\ open' = IF page = NoHandle THEN open \cup {browser} ELSE open
          /\ viewport' = IF page = NoHandle THEN NoViewport ELSE viewport
          /\ Resolve
       \/ /\ UNCHANGED <<page, open, viewport>>
          /\ Reject
    /\ UNCHANGED <<config, retries, attempts, raised, mainError, exitCode, returned,
                   cleanupFrom, browser, live, browserCloses, pageCloses, disk, ghost>>
    /\ UNCHANGED <<gate, geo, renderer, debouncer>>
    /\ UNCHANGED delays

\* initialize(): this.page = await this.browser.newPage()
initialize_newPage ==
    /\ AtStep("newPage")
    /\ \/ /\ page' = browser
          /\ open' = open \cup {browser}
          /\ viewport' = NoViewport
          /\ Resolve
       \/ /\ UNCHANGED <<page, open, viewport>>
          /\ Reject
    /\ UNCHANGED <<config, retries, attempts, raised, mainError, exitCode, returned,
                   cleanupFrom, browser, live, browserCloses, pageCloses, disk, ghost>>
    /\ UNCHANGED <<gate, geo, renderer, debouncer>>
    /\ UNCHANGED delays

\* Mutation of initialize_setViewport: the viewport is configured in the first
\* attempt only.
initialize_setViewport_Once ==
    /\ AtStep("setViewport")
    /\ \/ /\ viewport' = IF attempts = 1 THEN Viewport ELSE viewport
          /\ Resolve
       \/ /\ viewport' \in {viewport, Viewport}
          /\ Reject
    /\ UNCHANGED <<config, retries, attempts, raised, mainError, exitCode, returned,
                   cleanupFrom, session, disk, ghost>>
    /\ UNCHANGED <<gate, geo, renderer, debouncer>>
    /\ UNCHANGED delays

\* initialize(): page.setViewport, then page.setUserAgent and the WebGL
\* set-up.  A rejection comes from setViewport itself or from a later call.
initialize_setViewport ==
    /\ AtStep("setViewport")
    /\ \/ /\ viewport' = Viewport
          /\ Resolve
       \/ /\ viewport' \in {viewport, Viewport}
          /\ Reject
    /\ UNCHANGED <<config, retries, attempts, raised, mainError, exitCode, returned,
                   cleanupFrom, session, disk, ghost>>
    /\ UNCHANGED <<gate, geo, renderer, debouncer>>
    /\ UNCHANGED delays

\* navigateToMap(): await this.page.goto(url, {timeout: 30000})
navigateToMap ==
    /\ AtStep("goto")
    /\ count' = Bump("goto")
    /\ (Resolve \/ Reject)
    /\ UNCHANGED <<config, retries, attempts, raised, mainError, exitCode, returned,
                   cleanupFrom, session, disk, issued, sinceFail, teardownThrew>>
    /\ UNCHANGED <<gate, geo, renderer, debouncer>>
    /\ UNCHANGED <<delays, viewport>>

\* waitForMapReady(): resolves when the page reports ready, rejects on timeout
waitForMapReady ==
    /\ AtStep("waitForMapReady")
    /\ (Resolve \/ Reject)
    /\ UNCHANGED <<config, retries, attempts, raised, mainError, exitCode, returned,
                   cleanupFrom, session, disk, ghost>>
    /\ UNCHANGED <<gate, geo, renderer, debouncer>>
    /\ UNCHANGED <<delays, viewport>>

(***************************************************************************)
(* The view change of captureOverview() / captureZoom(), run in the page   *)
(* by one page.evaluate: the flyTo call, the wait for its moveend and the  *)
(* additional delay for tiles.                                             *)
(*   flown:       the renderer handle is there, the view change is issued, *)
(*                its moveend arrives and the additional delay elapses;    *)
(*   unavailable: window.flightPathMap (or the method) is missing: neither *)
(*                script issues a view change, and neither fails;          *)
(*   threw:       the view change call throws: capture.js swallows it and  *)
(*                resolves after 3000 ms, capture-simple.js lets the       *)
(*                rejection of setOverviewView / setZoomView through;      *)
(*   nomoveend:   the view change is issued and its moveend never arrives: *)
(*                the promise in the page never settles.  capture.js       *)
(*                launches with protocolTimeout 60000, which rejects the   *)
(*                page.evaluate.  capture-simple.js sets no bound, and     *)
(*                neither does the wait in setOverviewView / setZoomView:  *)
(*                the page.evaluate is rejected where the installed        *)
(*                puppeteer has a protocol timeout of its own, and stays   *)
(*                pending where it has none;                               *)
(*   reject:      page.evaluate itself rejects (page crashed).             *)
(***************************************************************************)
setView ==
    /\ AtStep("setView")
    /\ \E outcome \in {"flown", "unavailable", "threw", "nomoveend", "reject"} :
        CASE outcome = "flown" ->
                /\ issued' = issued \cup {Step.view}
                /\ count' = Bump("view")
                /\ ResolveAs("flown")
          [] outcome = "unavailable" ->
                /\ UNCHANGED <<issued, count>>
                /\ ResolveAs("unavailable")
          [] outcome = "threw" ->
                /\ issued' = issued
                /\ count' = Bump("view")
                /\ IF variant = "full" THEN ResolveAs("threw") ELSE RejectAs("threw")
          [] outcome = "nomoveend" ->
                /\ issued' = issued \cup {Step.view}
                /\ count' = Bump("view")
                /\ IF variant = "full"
                   THEN RejectAs("nomoveend")
                   ELSE RejectAs("nomoveend") \/ Hang
          [] outcome = "reject" ->
                /\ UNCHANGED <<issued, count>>
                /\ Reject
    /\ UNCHANGED <<config, retries, attempts, raised, mainError, exitCode, returned,
                   cleanupFrom, session, disk, sinceFail, teardownThrew>>
    /\ UNCHANGED <<gate, geo, renderer, debouncer>>
    /\ UNCHANGED <<delays, viewport>>

\* await new Promise(resolve => setTimeout(resolve, ...)): never rejects
wait ==
    /\ AtStep("wait")
    /\ Resolve
    /\ UNCHANGED <<config, retries, attempts, raised, mainError, exitCode, returned,
                   cleanupFrom, session, disk, ghost>>
    /\ UNCHANGED <<gate, geo, renderer, debouncer>>
    /\ UNCHANGED <<delays, viewport>>

\* hideMapUI() (capture-simple.js): a page.evaluate
hideMapUI ==
    /\ AtStep("hideMapUI")
    /\ (Resolve \/ Reject)
    /\ UNCHANGED <<config, retries, attempts, raised, mainError, exitCode, returned,
                   cleanupFrom, session, disk, ghost>>
    /\ UNCHANGED <<gate, geo, renderer, debouncer>>
    /\ UNCHANGED <<delays, viewport>>

\* Mutation of ensureScreenshotDirectory: the directory is created anew on
\* every call (fs.rm, then fs.mkdir).
ensureScreenshotDirectory_Recreate ==
    /\ AtStep("ensureScreenshotDirectory")
    /\ \/ /\ dirExists' = TRUE
          /\ files' = [f \in DOMAIN files |-> 0]
          /\ Resolve
       \/ /\ UNCHANGED <<dirExists, files>>
          /\ Reject
    /\ UNCHANGED <<config, retries, attempts, raised, mainError, exitCode, returned,
                   cleanupFrom, session, ghost>>
    /\ UNCHANGED <<gate, geo, renderer, debouncer>>
    /\ UNCHANGED <<delays, viewport>>

\* ensureScreenshotDirectory(): fs.access, and fs.mkdir when access rejects
ensureScreenshotDirectory ==
    /\ AtStep("ensureScreenshotDirectory")
    /\ IF dirExists
       THEN dirExists' = dirExists /\ Resolve
       ELSE \/ dirExists' = TRUE /\ Resolve
            \/ dirExists' = dirExists /\ Reject
    /\ UNCHANGED <<config, retries, attempts, raised, mainError, exitCode, returned,
                   cleanupFrom, session, files, ghost>>
    /\ UNCHANGED <<gate, geo, renderer, debouncer>>
    /\ UNCHANGED <<delays, viewport>>

\* await this.page.screenshot({path: <dir>/<view>.png, type: 'png'})
screenshot ==
    /\ AtStep("screenshot")
    /\ count' = Bump("shot")
    /\ \/ /\ files' = [files EXCEPT ![FileName(Step.view)] = attempts]
          /\ Resolve
       \/ /\ files' = files
          /\ Reject
    /\ UNCHANGED <<config, retries, attempts, raised, mainError, exitCode, returned,
                   cleanupFrom, session, dirExists, issued, sinceFail, teardownThrew>>
    /\ UNCHANGED <<gate, geo, renderer, debouncer>>
    /\ UNCHANGED <<delays, viewport>>

\* Mutation of captureAllScreenshots_return: the result is recorded but the
\* loop is not left (the return statement placed after the loop).
captureAllScreenshots_return_NoExit ==
    /\ pc = "return"
    /\ returned' = IF variant = "full"
                   THEN [kind |-> "paths", overview |-> "overview.png", zoom |-> "zoom.png"]
                   ELSE [kind |-> "true", overview |-> "", zoom |-> ""]
    /\ pc' = "while"
    /\ UNCHANGED <<config, idx, retries, attempts, error, raised, mainError, exitCode,
                   cleanupFrom, session, disk, ghost>>
    /\ UNCHANGED <<log, gate, geo, renderer, debouncer>>
    /\ UNCHANGED <<delays, viewport>>

\* return {overview: overviewPath, zoom: zoomPath}  /  return true
captureAllScreenshots_return ==
    /\ pc = "return"
    /\ returned' = IF variant = "full"
                   THEN [kind |-> "paths", overview |-> "overview.png", zoom |-> "zoom.png"]
                   ELSE [kind |-> "true", overview |-> "", zoom |-> ""]
    /\ pc' = "mainFinally"
    /\ UNCHANGED <<config, idx, retries, attempts, error, raised, mainError, exitCode,
                   cleanupFrom, session, disk, ghost>>
    /\ UNCHANGED <<log, gate, geo, renderer, debouncer>>
    /\ UNCHANGED <<delays, viewport>>

\* Mutation of captureAllScreenshots_catch: the retry test is off by one
\* (retries < maxRetries - 1).
captureAllScreenshots_catch_OffByOne ==
    /\ pc = "catch"
    /\ retries' = retries + 1
    /\ sinceFail' = << >>
    /\ IF retries + 1 < maxRetries - 1
       THEN /\ pc' = "cleanup"
            /\ cleanupFrom' = "retry"
            /\ UNCHANGED <<raised, mainError>>
       ELSE /\ cleanupFrom' = cleanupFrom
            /\ IF variant = "full"
               THEN pc' = "mainCatch" /\ raised' = error /\ mainError' = error
               ELSE pc' = "while" /\ UNCHANGED <<raised, mainError>>
    /\ UNCHANGED <<config, idx, attempts, error, exitCode, returned, session, disk,
                   issued, count, teardownThrew>>
    /\ UNCHANGED <<log, gate, geo, renderer, debouncer>>
    /\ UNCHANGED <<delays, viewport>>

\* Mutation of captureAllScreenshots_catch: cleanup() and the delay follow
\* every failed attempt, the last one included (no test of retries).
captureAllScreenshots_catch_AlwaysTeardown ==
    /\ pc = "catch"
    /\ retries' = retries + 1
    /\ sinceFail' = << >>
    /\ pc' = "cleanup"
    /\ cleanupFrom' = "retry"
    /\ UNCHANGED <<raised, mainError>>
    /\ UNCHANGED <<config, idx, attempts, error, exitCode, returned, session, disk,
                   issued, count, teardownThrew>>
    /\ UNCHANGED <<log, gate, geo, renderer, debouncer>>
    /\ UNCHANGED <<delays, viewport>>

\* Mutation of captureAllScreenshots_catch: a failed attempt counts twice
\* (retries += 2).
captureAllScreenshots_catch_CountsTwice ==
    /\ pc = "catch"
    /\ retries' = retries + 2
    /\ sinceFail' = << >>
    /\ IF retries + 2 < maxRetries
       THEN /\ pc' = "cleanup"
            /\ cleanupFrom' = "retry"
            /\ UNCHANGED <<raised, mainError>>
       ELSE /\ cleanupFrom' = cleanupFrom
            /\ IF variant = "full"
               THEN pc' = "mainCatch" /\ raised' = error /\ mainError' = error
               ELSE pc' = "while" /\ UNCHANGED <<raised, mainError>>
    /\ UNCHANGED <<config, idx, attempts, error, exitCode, returned, session, disk,
                   issued, count, teardownThrew>>
    /\ UNCHANGED <<log, gate, geo, renderer, debouncer>>
    /\ UNCHANGED <<delays, viewport>>

(***************************************************************************)
(* catch (error) of the retry loop: retries++, then either cleanup() and   *)
(* the delay, or (capture.js) throw error; capture-simple.js goes back to  *)
(* the loop guard.                                                         *)
(***************************************************************************)
captureAllScreenshots_catch ==
    /\ pc = "catch"
    /\ retries' = retries + 1
    /\ sinceFail' = << >>
    /\ IF retries + 1 < maxRetries
       THEN /\ pc' = "cleanup"
            /\ cleanupFrom' = "retry"
            /\ UNCHANGED <<raised, mainError>>
       ELSE /\ cleanupFrom' = cleanupFrom
            /\ IF variant = "full"
               THEN pc' = "mainCatch" /\ raised' = error /\ mainError' = error
               ELSE pc' = "while" /\ UNCHANGED <<raised, mainError>>
    /\ UNCHANGED <<config, idx, attempts, error, exitCode, returned, session, disk,
                   issued, count, teardownThrew>>
    /\ UNCHANGED <<log, gate, geo, renderer, debouncer>>
    /\ UNCHANGED <<delays, viewport>>

\* Mutation of cleanupReturn: cleanup() has no catch, so a close() error of
\* the retry teardown leaves the retry loop and reaches main.
cleanupReturn_Rethrows ==
    IF cleanupFrom = "retry"
    THEN /\ pc' = IF teardownThrew' THEN "mainCatch" ELSE "delay"
         /\ sinceFail' = Append(sinceFail, "teardown")
         /\ exitCode' = exitCode
    ELSE /\ pc' = "exit"
         /\ sinceFail' = sinceFail
         /\ exitCode' = 0

\* cleanup() returns to its caller: the retry loop (then the delay) or main's
\* finally (then the process ends with exit code 0).
cleanupReturn ==
    IF cleanupFrom = "retry"
    THEN /\ pc' = "delay"
         /\ sinceFail' = Append(sinceFail, "teardown")
         /\ exitCode' = exitCode
    ELSE /\ pc' = "exit"
         /\ sinceFail' = sinceFail
         /\ exitCode' = 0

(***************************************************************************)
(* ScreenshotCapture.cleanup(): inside one try, close and clear the page   *)
(* if set, then close and clear the browser if set; catch logs and         *)
(* swallows.  A close() that throws skips the rest of the try block, so    *)
(* the handle stays set and, after a failed page.close(), the browser is   *)
(* never asked to close.  A close() that throws has released nothing.      *)
(***************************************************************************)
cleanupFull ==
    /\ pc = "cleanup"
    /\ variant = "full"
    /\ \E pageOk, browserOk \in BOOLEAN :
        LET hasPage == page /= NoHandle
            pageClosed == hasPage /\ pageOk
            pageThrows == hasPage /\ ~pageOk
            hasBrowser == ~pageThrows /\ browser /= NoHandle
            browserClosed == hasBrowser /\ browserOk
            browserThrows == hasBrowser /\ ~browserOk
        IN  /\ pageCloses' = IF hasPage THEN [pageCloses EXCEPT ![page] = @ + 1]
                             ELSE pageCloses
            /\ page' = IF pageClosed THEN NoHandle ELSE page
            /\ browserCloses' = IF hasBrowser
                                THEN [browserCloses EXCEPT ![browser] = @ + 1]
                                ELSE browserCloses
            /\ browser' = IF browserClosed THEN NoHandle ELSE browser
            /\ live' = IF browserClosed THEN live \ {browser} ELSE live
            /\ open' = (open \ (IF pageClosed THEN {page} ELSE {}))
                          \ (IF browserClosed THEN {browser} ELSE {})
            /\ teardownThrew' = (teardownThrew \/
                                   (cleanupFrom = "retry" /\ (pageThrows \/ browserThrows)))
    /\ count' = IF cleanupFrom = "retry" THEN Bump("teardown") ELSE count
    /\ cleanupReturn
    /\ UNCHANGED <<config, idx, retries, attempts, error, raised, mainError, returned,
                   cleanupFrom, disk, issued>>
    /\ UNCHANGED <<log, gate, geo, renderer, debouncer>>
    /\ UNCHANGED <<delays, viewport>>

(***************************************************************************)
(* SimpleScreenshotCapture.cleanup(): close the browser if this.browser is *)
(* set; the handle is not cleared and the page is not closed on its own    *)
(* (closing a browser closes its pages).  Errors are logged and swallowed. *)
(***************************************************************************)
cleanupSimple ==
    /\ pc = "cleanup"
    /\ variant = "simple"
    /\ \E browserOk \in BOOLEAN :
        LET hasBrowser == browser /= NoHandle
            browserClosed == hasBrowser /\ browserOk
        IN  /\ browserCloses' = IF hasBrowser
                                THEN [browserCloses EXCEPT ![browser] = @ + 1]
                                ELSE browserCloses
            /\ live' = IF browserClosed THEN live \ {browser} ELSE live
            /\ open' = IF browserClosed THEN open \ {browser} ELSE open
            /\ teardownThrew' = (teardownThrew \/
                                   (cleanupFrom = "retry" /\ hasBrowser /\ ~browserOk))
    /\ count' = IF cleanupFrom = "retry" THEN Bump("teardown") ELSE count
    /\ cleanupReturn
    /\ UNCHANGED <<config, idx, retries, attempts, error, raised, mainError, returned,
                   cleanupFrom, browser, page, pageCloses, disk, issued>>
    /\ UNCHANGED <<log, gate, geo, renderer, debouncer>>
    /\ UNCHANGED <<delays, viewport>>

\* await new Promise(resolve => setTimeout(resolve, SCREENSHOT_CONFIG.retryDelay))
retryDelay ==
    /\ pc = "delay"
    /\ pc' = "while"
    /\ sinceFail' = Append(sinceFail, "delay")
    /\ UNCHANGED <<config, idx, retries, attempts, error, raised, mainError, exitCode,
                   returned, cleanupFrom, session, disk, issued, count, teardownThrew>>
    /\ UNCHANGED <<log, gate, geo, renderer, debouncer>>
    /\ delays' = Append(delays, retryDelayMs)
    /\ UNCHANGED viewport

\* main(): catch (error) { console.error(...); process.exit(1); }
\* process.exit ends the process synchronously: the finally block is not run.
main_catch ==
    /\ pc = "mainCatch"
    /\ pc' = "exit"
    /\ exitCode' = 1
    /\ UNCHANGED <<config, idx, retries, attempts, error, raised, mainError, returned,
                   cleanupFrom, session, disk, ghost>>
    /\ UNCHANGED <<log, gate, geo, renderer, debouncer>>
    /\ UNCHANGED <<delays, viewport>>

\* main(): finally { await capture.cleanup(); } after the try block completed
main_finally ==
    /\ pc = "mainFinally"
    /\ pc' = "cleanup"
    /\ cleanupFrom' = "final"
    /\ UNCHANGED <<config, idx, retries, attempts, error, raised, mainError, exitCode,
                   returned, session, disk, ghost>>
    /\ UNCHANGED <<log, gate, geo, renderer, debouncer>>
    /\ UNCHANGED <<delays, viewport>>

Next ==
    \/ main
    \/ captureAllScreenshots_while
    \/ initialize_launch
    \/ initialize_newPage
    \/ initialize_setViewport
    \/ navigateToMap
    \/ waitForMapReady
    \/ setView
    \/ wait
    \/ hideMapUI
    \/ ensureScreenshotDirectory
    \/ screenshot
    \/ captureAllScreenshots_return
    \/ captureAllScreenshots_catch
    \/ cleanupFull
    \/ cleanupSimple
    \/ retryDelay
    \/ main_catch
    \/ main_finally

Spec == Init /\ [][Next]_vars

(***************************************************************************)
(* waitForMapReady(), looked at on its own: one call of it against a page  *)
(* whose state changes under it.  Time advances in steps of the polling    *)
(* interval.  Three versions exist:                                        *)
(*   full:    capture.js, the in-page promise with checkMap re-armed every *)
(*            1000 ms and a 30000 ms setTimeout that rejects;              *)
(*   fileurl: capture.js (file-URL version), one check of isInitialized    *)
(*            and otherwise a mapReady listener, with no timeout;          *)
(*   simple:  capture-simple.js, two page.waitForFunction calls in a row,  *)
(*            each with timeout 30000.  waitForFunction re-evaluates the   *)
(*            predicate on every animation frame; the model evaluates it   *)
(*            once per clock step.                                         *)
(***************************************************************************)
gateTimeoutMs == 30000
pollIntervalMs == 1000
MaxClockMs == 32000

GateKinds == {"full", "fileurl", "simple"}

\* The conditions each version reads from the page
Conditions(kind) ==
    CASE kind = "full" -> {"mapContainer", "hasMapboxGL", "hasFlightPathMap",
                           "hasMapInstance", "hasMapContent"}
      [] kind = "fileurl" -> {"isInitialized"}
      [] kind = "simple" -> {"flightPathMap", "isInitialized", "map",
                             "isStyleLoaded", "loaded"}
      [] OTHER -> {}

\* Number of waits a call of waitForMapReady() makes, one after the other
Phases(kind) == IF kind = "simple" THEN 2 ELSE 1

\* The conjunction the wait number phase of a version tests
Required(kind, phase) ==
    CASE kind = "simple" /\ phase = 1 ->
            {"flightPathMap", "isInitialized", "map", "isStyleLoaded"}
      [] kind = "simple" /\ phase = 2 -> {"flightPathMap", "map", "loaded"}
      [] OTHER -> Conditions(kind)

\* Page states that exist: a container has children only if it is there, and
\* the members of window.flightPathMap are read only if the object is there.
Consistent(kind, conds) ==
    /\ conds \subseteq Conditions(kind)
    /\ "hasMapContent" \in conds => "mapContainer" \in conds
    /\ conds \cap {"isInitialized", "map"} /= {} => "flightPathMap" \in conds
    /\ conds \cap {"isStyleLoaded", "loaded"} /= {} => "map" \in conds

\* resolve() / reject() of a promise that has settled already do nothing.
Settle(outcome) == IF gStatus = "waiting" THEN outcome ELSE gStatus
SettledNow == IF gStatus = "waiting" THEN gClock ELSE gSettledAt

\* A timer that is due runs before a predicate evaluation due at the same time:
\* it was created first.
TimerDue == gTimer /\ gClock >= gateTimeoutMs

GateInit ==
    /\ GeoIdle
    /\ RendererIdle
    /\ DebouncerIdle
    /\ gKind \in GateKinds
    /\ gPhase = 1
    /\ gClock = 0
    /\ gStatus = "waiting"
    /\ gTimer = (gKind /= "fileurl")
    /\ gPollAt = 0
    /\ gListening = FALSE
    /\ gDispatched = FALSE
    /\ gConds \in {c \in SUBSET Conditions(gKind) : Consistent(gKind, c)}
    /\ gSeen = {}
    /\ gObserved = << >>
    /\ gPolls = 0
    /\ gSettledAt = -1
    /\ variant = "full"
    /\ token = "valid"
    /\ pc = "try"
    /\ idx = 1
    /\ retries = 0
    /\ attempts = 0
    /\ error = NoError
    /\ raised = NoError
    /\ mainError = NoError
    /\ exitCode = -1
    /\ returned = NoResult
    /\ cleanupFrom = "none"
    /\ browser = NoHandle
    /\ page = NoHandle
    /\ live = {}
    /\ open = {}
    /\ browserCloses = [h \in Handles |-> 0]
    /\ pageCloses = [h \in Handles |-> 0]
    /\ files = [f \in {"overview.png", "zoom.png"} |-> 0]
    /\ dirExists = TRUE
    /\ issued = {}
    /\ count = [launch |-> 0, goto |-> 0, view |-> 0, shot |-> 0, teardown |-> 0]
    /\ sinceFail = << >>
    /\ teardownThrew = FALSE
    /\ log = << >>
    /\ delays = << >>
    /\ viewport = NoViewport

\* Mutation of checkMap: the flags are remembered across evaluations, and the
\* wait resolves once each of them has been seen to hold.
checkMap_Accumulates ==
    /\ gKind = "full"
    /\ gPollAt = gClock
    /\ ~TimerDue
    /\ gPolls' = gPolls + 1
    /\ gSeen' = gSeen \cup gConds
    /\ IF Required("full", 1) \subseteq (gSeen \cup gConds)
       THEN /\ gTimer' = FALSE
            /\ gStatus' = Settle("resolved")
            /\ gSettledAt' = SettledNow
            /\ gObserved' = IF gStatus = "waiting"
                            THEN Append(gObserved, gConds) ELSE gObserved
            /\ gPollAt' = -1
       ELSE /\ gPollAt' = gClock + pollIntervalMs
            /\ UNCHANGED <<gTimer, gStatus, gSettledAt, gObserved>>
    /\ gConds' = gConds
    /\ UNCHANGED <<gKind, gPhase, gClock, gListening, gDispatched>>
    /\ UNCHANGED <<capture, geo, renderer, debouncer>>

\* Mutation of checkMap: a successful evaluation is not trusted, the predicate
\* is evaluated again 1000 ms later.
checkMap_ChecksAgain ==
    /\ gKind = "full"
    /\ gPollAt = gClock
    /\ ~TimerDue
    /\ gPolls' = gPolls + 1
    /\ gSeen' = gSeen \cup gConds
    /\ IF Required("full", 1) \subseteq gConds /\ Required("full", 1) \subseteq gSeen
       THEN /\ gTimer' = FALSE
            /\ gStatus' = Settle("resolved")
            /\ gSettledAt' = SettledNow
            /\ gObserved' = IF gStatus = "waiting"
                            THEN Append(gObserved, gConds) ELSE gObserved
            /\ gPollAt' = -1
       ELSE /\ gPollAt' = gClock + pollIntervalMs
            /\ UNCHANGED <<gTimer, gStatus, gSettledAt, gObserved>>
    /\ gConds' = gConds
    /\ UNCHANGED <<gKind, gPhase, gClock, gListening, gDispatched>>
    /\ UNCHANGED <<capture, geo, renderer, debouncer>>

\* Mutation of checkMap: an evaluation that finds the map not initialized
\* marks it initialized.
checkMap_ForcesInit ==
    /\ gKind = "full"
    /\ gPollAt = gClock
    /\ ~TimerDue
    /\ gPolls' = gPolls + 1
    /\ gSeen' = gSeen \cup gConds
    /\ IF Required("full", 1) \subseteq gConds
       THEN /\ gTimer' = FALSE
            /\ gStatus' = Settle("resolved")
            /\ gSettledAt' = SettledNow
            /\ gObserved' = IF gStatus = "waiting"
                            THEN Append(gObserved, gConds) ELSE gObserved
            /\ gPollAt' = -1
            /\ gConds' = gConds
       ELSE /\ gPollAt' = gClock + pollIntervalMs
            /\ gConds' = gConds \cup {"hasFlightPathMap"}
            /\ UNCHANGED <<gTimer, gStatus, gSettledAt, gObserved>>
    /\ UNCHANGED <<gKind, gPhase, gClock, gListening, gDispatched>>
    /\ UNCHANGED <<capture, geo, renderer, debouncer>>

(***************************************************************************)
(* checkMap (capture.js): read the five flags; if all hold, clearTimeout   *)
(* and resolve, otherwise setTimeout(checkMap, 1000).  The rejecting timer *)
(* does not stop the chain of evaluations.                                 *)
(***************************************************************************)
checkMap ==
    /\ gKind = "full"
    /\ gPollAt = gClock
    /\ ~TimerDue
    /\ gPolls' = gPolls + 1
    /\ gSeen' = gSeen \cup gConds
    /\ IF Required("full", 1) \subseteq gConds
       THEN /\ gTimer' = FALSE
            /\ gStatus' = Settle("resolved")
            /\ gSettledAt' = SettledNow
            /\ gObserved' = IF gStatus = "waiting"
                            THEN Append(gObserved, gConds) ELSE gObserved
            /\ gPollAt' = -1
       ELSE /\ gPollAt' = gClock + pollIntervalMs
            /\ UNCHANGED <<gTimer, gStatus, gSettledAt, gObserved>>
    /\ gConds' = gConds
    /\ UNCHANGED <<gKind, gPhase, gClock, gListening, gDispatched>>
    /\ UNCHANGED <<capture, geo, renderer, debouncer>>

(***************************************************************************)
(* page.waitForFunction(predicate, {timeout: 30000}) (capture-simple.js):  *)
(* one evaluation of the predicate of the running wait.  When the first    *)
(* wait succeeds the second one starts, with a timeout of its own.         *)
(***************************************************************************)
waitForFunction ==
    /\ gKind = "simple"
    /\ gStatus = "waiting"
    /\ gPollAt = gClock
    /\ ~TimerDue
    /\ IF Required("simple", gPhase) \subseteq gConds
       THEN /\ gObserved' = Append(gObserved, gConds)
            /\ IF gPhase < Phases("simple")
               THEN /\ gPhase' = gPhase + 1
                    /\ gClock' = 0
                    /\ gPollAt' = 0
                    /\ gPolls' = 0
                    /\ gSeen' = {}
                    /\ UNCHANGED <<gStatus, gTimer, gSettledAt>>
               ELSE /\ gStatus' = "resolved"
                    /\ gTimer' = FALSE
                    /\ gSettledAt' = gClock
                    /\ gPollAt' = -1
                    /\ gPolls' = gPolls + 1
                    /\ gSeen' = gSeen \cup gConds
                    /\ UNCHANGED <<gPhase, gClock>>
       ELSE /\ gPollAt' = gClock + pollIntervalMs
            /\ gPolls' = gPolls + 1
            /\ gSeen' = gSeen \cup gConds
            /\ UNCHANGED <<gPhase, gClock, gStatus, gTimer, gSettledAt, gObserved>>
    /\ gConds' = gConds
    /\ UNCHANGED <<gKind, gListening, gDispatched>>
    /\ UNCHANGED <<capture, geo, renderer, debouncer>>

(***************************************************************************)
(* The promise of the file-URL version: resolve at once if isInitialized   *)
(* holds, else document.addEventListener('mapReady', resolve, {once}).     *)
(* Nothing else ever settles it.                                           *)
(***************************************************************************)
waitForMapReady_fileurl ==
    /\ gKind = "fileurl"
    /\ gStatus = "waiting"
    /\ gPollAt = gClock
    /\ gPolls' = gPolls + 1
    /\ gSeen' = gSeen \cup gConds
    /\ gPollAt' = -1
    /\ IF Required("fileurl", 1) \subseteq gConds
       THEN /\ gStatus' = "resolved"
            /\ gSettledAt' = gClock
            /\ gObserved' = Append(gObserved, gConds)
            /\ gListening' = gListening
       ELSE /\ gListening' = TRUE
            /\ UNCHANGED <<gStatus, gSettledAt, gObserved>>
    /\ gConds' = gConds
    /\ UNCHANGED <<gKind, gPhase, gClock, gTimer, gDispatched>>
    /\ UNCHANGED <<capture, geo, renderer, debouncer>>

\* The mapReady listener runs: resolve, and the listener is gone (once: true).
mapReady ==
    /\ gKind = "fileurl"
    /\ gListening
    /\ gDispatched
    /\ gListening' = FALSE
    /\ gDispatched' = FALSE
    /\ gStatus' = Settle("resolved")
    /\ gSettledAt' = SettledNow
    /\ gObserved' = Append(gObserved, gConds)
    /\ gConds' = gConds
    /\ UNCHANGED <<gKind, gPhase, gClock, gTimer, gPollAt, gSeen, gPolls>>
    /\ UNCHANGED <<capture, geo, renderer, debouncer>>

(***************************************************************************)
(* The timeout of the running wait expires: the setTimeout callback of     *)
(* capture.js rejects, waitForFunction rejects and stops evaluating.       *)
(***************************************************************************)
timeout ==
    /\ TimerDue
    /\ gTimer' = FALSE
    /\ gStatus' = Settle("timeout")
    /\ gSettledAt' = SettledNow
    /\ gPollAt' = IF gKind = "simple" THEN -1 ELSE gPollAt
    /\ gConds' = gConds
    /\ UNCHANGED <<gKind, gPhase, gClock, gListening, gDispatched, gSeen, gObserved, gPolls>>
    /\ UNCHANGED <<capture, geo, renderer, debouncer>>

\* Time passes: nothing is due now.
tick ==
    /\ gStatus /= "idle"
    /\ gClock + pollIntervalMs <= MaxClockMs
    /\ gPollAt /= gClock
    /\ ~TimerDue
    /\ ~(gListening /\ gDispatched)
    /\ gClock' = gClock + pollIntervalMs
    /\ UNCHANGED <<gKind, gPhase, gStatus, gTimer, gPollAt, gListening, gDispatched,
                   gConds, gSeen, gObserved, gPolls, gSettledAt>>
    /\ UNCHANGED <<capture, geo, renderer, debouncer>>

(***************************************************************************)
(* FlightPathMap.handleMapLoad(): isInitialized = true, then the mapReady  *)
(* event is dispatched on document; it reaches the listener if one is      *)
(* registered.                                                             *)
(***************************************************************************)
handleMapLoad ==
    /\ gKind = "fileurl"
    /\ "isInitialized" \notin gConds
    /\ gConds' = gConds \cup {"isInitialized"}
    /\ gDispatched' = gListening
    /\ UNCHANGED <<gKind, gPhase, gClock, gStatus, gTimer, gPollAt, gListening,
                   gSeen, gObserved, gPolls, gSettledAt>>
    /\ UNCHANGED <<capture, geo, renderer, debouncer>>

\* The page changes between two evaluations: one of the conditions the wait
\* reads starts or stops to hold.
pageChange ==
    /\ gKind \in {"full", "simple"}
    /\ gStatus = "waiting"
    /\ gPollAt /= gClock
    /\ \E c \in Conditions(gKind) :
        LET conds == IF c \in gConds THEN gConds \ {c} ELSE gConds \cup {c}
        IN  /\ Consistent(gKind, conds)
            /\ gConds' = conds
    /\ UNCHANGED <<gKind, gPhase, gClock, gStatus, gTimer, gPollAt, gListening,
                   gDispatched, gSeen, gObserved, gPolls, gSettledAt>>
    /\ UNCHANGED <<capture, geo, renderer, debouncer>>

GateNext ==
    \/ checkMap
    \/ waitForFunction
    \/ waitForMapReady_fileurl
    \/ mapReady
    \/ timeout
    \/ tick
    \/ handleMapLoad
    \/ pageChange

GateSpec == GateInit /\ [][GateNext]_vars

(***************************************************************************)
(* The great-circle functions of utils.js, applied to given points.        *)
(* Numbers are fixed-point: angles in radians and the values of sin, cos   *)
(* and fractions are integers in units of 1/Scale, coordinates are         *)
(* integers in units of 1/100 degree, times in 1/10 minute.  Every         *)
(* arithmetic operation rounds to the nearest unit, symmetrically in the   *)
(* sign as IEEE arithmetic does.  NaN stands for the not-a-number results. *)
(***************************************************************************)
Scale == 10000
\* Math.PI
Pi == 31416
HalfPi == Pi \div 2
TwoPi == 2 * Pi
NaN == 999999999
NaNPoint == <<NaN, NaN>>

Abs(a) == IF a < 0 THEN 0 - a ELSE a
RoundDiv(a, b) ==
    LET n == (2 * Abs(a) + b) \div (2 * b)
    IN  IF a < 0 THEN 0 - n ELSE n
\* a * b and a / b of two fixed-point numbers
Mul(a, b) == RoundDiv(a * b, Scale)
Div(a, b) == IF b < 0 THEN RoundDiv((0 - a) * Scale, 0 - b) ELSE RoundDiv(a * Scale, b)

\* The angle in (-Pi, Pi] equal to x modulo 2 Pi, for x within (-3 Pi, 3 Pi]
Wrap(x) == IF x > Pi THEN x - TwoPi ELSE IF x < 0 - Pi THEN x + TwoPi ELSE x

\* Math.sin on [-Pi/2, Pi/2]: x - x^3/3! + x^5/5! - x^7/7! + x^9/9!
SinSeries(x, x2) ==
    LET t9 == Scale - RoundDiv(x2, 72)
        t7 == Scale - RoundDiv(Mul(x2, t9), 42)
        t5 == Scale - RoundDiv(Mul(x2, t7), 20)
        t3 == Scale - RoundDiv(Mul(x2, t5), 6)
    IN  Mul(x, t3)
SinReduced(x) == SinSeries(x, Mul(x, x))

\* sin(Pi - w) = sin(w): an angle of [-Pi, Pi] brought into [-Pi/2, Pi/2]
Fold(w) ==
    IF w > HalfPi THEN Pi - w
    ELSE IF w < 0 - HalfPi THEN 0 - Pi - w
    ELSE w

MathSin(x) == SinReduced(Fold(Wrap(x)))

MathCos(x) == SinReduced(HalfPi - Abs(Wrap(x)))

RECURSIVE IsqrtFrom(_, _)
IsqrtFrom(n, x) ==
    LET y == (x + n \div x) \div 2
    IN  IF y >= x THEN x ELSE IsqrtFrom(n, y)

\* Math.sqrt of a fixed-point number v >= 0
MathSqrt(v) == IF v <= 0 THEN 0 ELSE IsqrtFrom(v * Scale, v * Scale)

\* Of two neighbouring angles, the one whose sine is nearer to v
Nearer(lo, hi, sinLo, sinHi, v) == IF v - sinLo <= sinHi - v THEN lo ELSE hi

RECURSIVE AsinBetween(_, _, _)
AsinBetween(lo, hi, v) ==
    IF hi - lo > 1
    THEN LET mid == (lo + hi) \div 2
         IN  IF SinReduced(mid) <= v THEN AsinBetween(mid, hi, v)
                                     ELSE AsinBetween(lo, mid, v)
    ELSE Nearer(lo, hi, SinReduced(lo), SinReduced(hi), v)

\* t with the sign of s
Signed(s, t) == IF s < 0 THEN 0 - t ELSE t

\* Math.asin of v in [-1, 1]
MathAsin(v) == Signed(v, AsinBetween(0, HalfPi, Abs(v)))

Min(a, b) == IF a <= b THEN a ELSE b

\* The angle of [0, Pi/2] of the point (x, y), x >= 0, y >= 0, at distance r > 0
Acute(y, x, r) ==
    IF y <= x THEN MathAsin(Min(Scale, Div(y, r)))
    ELSE HalfPi - MathAsin(Min(Scale, Div(x, r)))

\* The angle t of the first quadrant moved to the quadrant of (x, y)
Quadrant(y, x, t) == Signed(y, IF x < 0 THEN Pi - t ELSE t)

Atan2At(y, x, r) == IF r = 0 THEN 0 ELSE Quadrant(y, x, Acute(Abs(y), Abs(x), r))

\* Math.atan2(y, x)
MathAtan2(y, x) == Atan2At(y, x, MathSqrt(Mul(x, x) + Mul(y, y)))

\* degrees * (Math.PI / 180), degrees in 1/100 degree
degreesToRadians(degrees) == RoundDiv(degrees * Pi, 18000)
\* radians * (180 / Math.PI), in 1/100 degree
radiansToDegrees(radians) == RoundDiv(radians * 18000, Pi)

earthRadius == 6371

\* sin^2(dLat/2) + cos(lat1) cos(lat2) sin^2(dLon/2), angles in radians
Haversine(lat1, lat2, sinHalfLat, sinHalfLon) ==
    Mul(sinHalfLat, sinHalfLat) +
    Mul(Mul(MathCos(lat1), MathCos(lat2)), Mul(sinHalfLon, sinHalfLon))

\* earthRadius * c with c = 2 * Math.atan2(Math.sqrt(a), Math.sqrt(1 - a));
\* Math.sqrt(1 - a) of a negative number is NaN, and so is the result.
DistanceOf(a) ==
    IF a > Scale THEN NaN
    ELSE RoundDiv(earthRadius * (2 * MathAtan2(MathSqrt(a), MathSqrt(Scale - a))), Scale)

\* Mutation of calculateGreatCircleDistance: Math.cos(lat1) squared in place
\* of Math.cos(lat1) * Math.cos(lat2).
calculateGreatCircleDistance_OneLatitude(p1, p2) ==
    LET dLat == degreesToRadians(p2[2] - p1[2])
        dLon == degreesToRadians(p2[1] - p1[1])
    IN  DistanceOf(Haversine(degreesToRadians(p1[2]), degreesToRadians(p1[2]),
                             MathSin(RoundDiv(dLat, 2)), MathSin(RoundDiv(dLon, 2))))

\* calculateGreatCircleDistance(point1, point2): the haversine formula, in km
calculateGreatCircleDistance(p1, p2) ==
    LET dLat == degreesToRadians(p2[2] - p1[2])
        dLon == degreesToRadians(p2[1] - p1[1])
    IN  DistanceOf(Haversine(degreesToRadians(p1[2]), degreesToRadians(p2[2]),
                             MathSin(RoundDiv(dLat, 2)), MathSin(RoundDiv(dLon, 2))))

\* 2 * Math.asin(root)
TwiceAsin(root) == IF root > Scale THEN NaN ELSE 2 * MathAsin(root)

\* const d = 2 * Math.asin(Math.sqrt(...)) of calculateIntermediatePoint
AngularDistance(startPoint, endPoint) ==
    LET lat1Rad == degreesToRadians(startPoint[2])
        lon1Rad == degreesToRadians(startPoint[1])
        lat2Rad == degreesToRadians(endPoint[2])
        lon2Rad == degreesToRadians(endPoint[1])
    IN  TwiceAsin(MathSqrt(Haversine(lat1Rad, lat2Rad,
                                     MathSin(RoundDiv(lat2Rad - lat1Rad, 2)),
                                     MathSin(RoundDiv(lon2Rad - lon1Rad, 2)))))

\* const lat = Math.atan2(z, Math.sqrt(x * x + y * y)); const lon = Math.atan2(y, x);
\* return [radiansToDegrees(lon), radiansToDegrees(lat)]
LonLat(x, y, z) ==
    <<radiansToDegrees(MathAtan2(y, x)),
      radiansToDegrees(MathAtan2(z, MathSqrt(Mul(x, x) + Mul(y, y))))>>

\* The x, y, z of the weighted sum of the two points, and its longitude and latitude
Weighted(A, B, cosLat1, sinLat1, cosLon1, sinLon1, cosLat2, sinLat2, cosLon2, sinLon2) ==
    LonLat(Mul(Mul(A, cosLat1), cosLon1) + Mul(Mul(B, cosLat2), cosLon2),
           Mul(Mul(A, cosLat1), sinLon1) + Mul(Mul(B, cosLat2), sinLon2),
           Mul(A, sinLat1) + Mul(B, sinLat2))

\* A = Math.sin((1 - fraction) * d) / Math.sin(d), B = Math.sin(fraction * d) / Math.sin(d);
\* a division by a zero Math.sin(d) gives NaN.
WeightedBy(startPoint, endPoint, fraction, d, sinD) ==
    IF d = NaN \/ sinD = 0 THEN NaNPoint
    ELSE Weighted(Div(MathSin(Mul(Scale - fraction, d)), sinD),
                  Div(MathSin(Mul(fraction, d)), sinD),
                  MathCos(degreesToRadians(startPoint[2])),
                  MathSin(degreesToRadians(startPoint[2])),
                  MathCos(degreesToRadians(startPoint[1])),
                  MathSin(degreesToRadians(startPoint[1])),
                  MathCos(degreesToRadians(endPoint[2])),
                  MathSin(degreesToRadians(endPoint[2])),
                  MathCos(degreesToRadians(endPoint[1])),
                  MathSin(degreesToRadians(endPoint[1])))

\* The lines of calculateIntermediatePoint after the d === 0 test
PointAt(startPoint, endPoint, fraction, d) ==
    WeightedBy(startPoint, endPoint, fraction, d, IF d = NaN THEN 0 ELSE MathSin(d))

\* if (d === 0) return startPoint;
Guarded(startPoint, endPoint, fraction, d) ==
    IF d = 0 THEN startPoint ELSE PointAt(startPoint, endPoint, fraction, d)

\* Mutation of calculateIntermediatePoint: without the d === 0 test.
calculateIntermediatePoint_NoGuard(startPoint, endPoint, fraction) ==
    PointAt(startPoint, endPoint, fraction, AngularDistance(startPoint, endPoint))

\* Mutation of calculateIntermediatePoint: fraction clamped to [0, 1].
calculateIntermediatePoint_Clamped(startPoint, endPoint, fraction) ==
    Guarded(startPoint, endPoint, IF fraction < 0 THEN 0 ELSE Min(fraction, Scale),
            AngularDistance(startPoint, endPoint))

\* Mutation of calculateIntermediatePoint: the weights A and B exchanged.
calculateIntermediatePoint_Reversed(startPoint, endPoint, fraction) ==
    Guarded(startPoint, endPoint, Scale - fraction, AngularDistance(startPoint, endPoint))

\* calculateIntermediatePoint(startPoint, endPoint, fraction)
calculateIntermediatePoint(startPoint, endPoint, fraction) ==
    Guarded(startPoint, endPoint, fraction, AngularDistance(startPoint, endPoint))

\* timeFromStart / totalFlightTime
Fraction(timeFromStart, totalFlightTime) == RoundDiv(timeFromStart * Scale, totalFlightTime)

\* Mutation of calculateAircraftPosition: the fraction is the time left.
calculateAircraftPosition_TimeLeft(startPoint, endPoint, timeFromStart, totalFlightTime) ==
    calculateIntermediatePoint(startPoint, endPoint,
                               Fraction(totalFlightTime - timeFromStart, totalFlightTime))

\* calculateAircraftPosition(startPoint, endPoint, timeFromStart, totalFlightTime)
calculateAircraftPosition(startPoint, endPoint, timeFromStart, totalFlightTime) ==
    calculateIntermediatePoint(startPoint, endPoint,
                               Fraction(timeFromStart, totalFlightTime))

\* COORDINATES.CVG, COORDINATES.MCO
CVG == <<-8466, 3905>>
MCO == <<-8138, 2843>>
\* FLIGHT_CONFIG.totalFlightTime and FLIGHT_CONFIG.aircraftTimeFromCVG, in 1/10 minute
totalFlightTime == 1200
aircraftTimeFromCVG == 25

\* Points the functions are applied to
Points == {CVG, MCO, <<0, 0>>, <<9000, 0>>, <<-12000, 4500>>, <<3000, -6000>>}
\* Fractions: before the start, the ends, in between, beyond the end
Fractions == {0 - Scale \div 2, 0, Scale \div 4, Scale \div 2, Scale,
              3 * (Scale \div 2), 2 * Scale}
\* Elapsed times and flight times, in 1/10 minute
Elapsed == {0, aircraftTimeFromCVG, 600, totalFlightTime, 1500}
Durations == {totalFlightTime, 600}
\* Heights of the visible map, bounds.getNorth() - bounds.getSouth(), in 1/100 degree
MapHeights == {250, 3000}

\* One function is applied to a pair of points.
GeoInit ==
    /\ point1 \in Points
    /\ point2 \in Points
    /\ applied = "none"
    /\ argument = << >>
    /\ result = <<0, 0>>
    /\ GateIdle
    /\ RendererIdle
    /\ DebouncerIdle
    /\ variant = "full"
    /\ token = "valid"
    /\ pc = "main"
    /\ idx = 1
    /\ retries = 0
    /\ attempts = 0
    /\ error = NoError
    /\ raised = NoError
    /\ mainError = NoError
    /\ exitCode = -1
    /\ returned = NoResult
    /\ cleanupFrom = "none"
    /\ browser = NoHandle
    /\ page = NoHandle
    /\ live = {}
    /\ open = {}
    /\ browserCloses = [h \in Handles |-> 0]
    /\ pageCloses = [h \in Handles |-> 0]
    /\ files = [f \in {"overview.png", "zoom.png"} |-> 0]
    /\ dirExists = TRUE
    /\ issued = {}
    /\ count = [launch |-> 0, goto |-> 0, view |-> 0, shot |-> 0, teardown |-> 0]
    /\ sinceFail = << >>
    /\ teardownThrew = FALSE
    /\ log = << >>
    /\ delays = << >>
    /\ viewport = NoViewport

\* A call of calculateGreatCircleDistance(point1, point2)
distance ==
    /\ applied = "none"
    /\ applied' = "distance"
    /\ argument' = << >>
    /\ result' = <<calculateGreatCircleDistance(point1, point2)>>
    /\ UNCHANGED <<point1, point2>>
    /\ UNCHANGED <<capture, gate, renderer, debouncer>>

\* A call of calculateIntermediatePoint(point1, point2, fraction)
interpolate ==
    /\ applied = "none"
    /\ \E fraction \in Fractions :
        /\ applied' = "interpolate"
        /\ argument' = <<fraction>>
        /\ result' = calculateIntermediatePoint(point1, point2, fraction)
    /\ UNCHANGED <<point1, point2>>
    /\ UNCHANGED <<capture, gate, renderer, debouncer>>

\* A call of calculateAircraftPosition(point1, point2, timeFromStart, total)
positionAtTime ==
    /\ applied = "none"
    /\ \E timeFromStart \in Elapsed, total \in Durations :
        /\ applied' = "positionAtTime"
        /\ argument' = <<timeFromStart, total>>
        /\ result' = calculateAircraftPosition(point1, point2, timeFromStart, total)
    /\ UNCHANGED <<point1, point2>>
    /\ UNCHANGED <<capture, gate, renderer, debouncer>>

(***************************************************************************)
(* The centre of the zoom view as FlightPathMap.setZoomView() requests it  *)
(* when COORDINATES holds point1 and point2 and FLIGHT_CONFIG holds        *)
(* timeFromStart and total: the coordinates of the aircraft marker, which  *)
(* MarkerManager.initializeMarkerData() took from                          *)
(* calculateAircraftPosition, moved north by a fifth of the height of the  *)
(* visible map (mapHeight, in 1/100 degree).                               *)
(***************************************************************************)
setZoomView ==
    /\ applied = "none"
    /\ \E timeFromStart \in Elapsed, total \in Durations, mapHeight \in MapHeights :
        LET aircraftCoords == calculateAircraftPosition(point1, point2, timeFromStart,
                                                        total)
            offset == RoundDiv(mapHeight * 2, 10)
        IN  /\ applied' = "setZoomView"
            /\ argument' = <<timeFromStart, total>>
            /\ result' = <<aircraftCoords[1], aircraftCoords[2] + offset>>
    /\ UNCHANGED <<point1, point2>>
    /\ UNCHANGED <<capture, gate, renderer, debouncer>>

(***************************************************************************)
(* The centre of the zoom view as captureZoom() of capture.js requests it  *)
(* from a page whose COORDINATES holds point1 and point2 and whose         *)
(* FLIGHT_CONFIG holds timeFromStart and total: computed from the literals *)
(* cvg, mco and 2.5 / 120 by linear interpolation of longitude and         *)
(* latitude, moved north by 0.5 degree.  The configuration is not read.    *)
(***************************************************************************)
captureZoom ==
    /\ applied = "none"
    /\ \E timeFromStart \in Elapsed, total \in Durations :
        LET cvg == <<-8466, 3905>>
            mco == <<-8138, 2843>>
            fraction == RoundDiv(25 * Scale, 1200)
            aircraftLon == cvg[1] + Mul(mco[1] - cvg[1], fraction)
            aircraftLat == cvg[2] + Mul(mco[2] - cvg[2], fraction)
        IN  /\ applied' = "captureZoom"
            /\ argument' = <<timeFromStart, total>>
            /\ result' = <<aircraftLon, aircraftLat + 50>>
    /\ UNCHANGED <<point1, point2>>
    /\ UNCHANGED <<capture, gate, renderer, debouncer>>

GeoNext ==
    \/ distance
    \/ interpolate
    \/ positionAtTime
    \/ setZoomView
    \/ captureZoom

GeoSpec == GeoInit /\ [][GeoNext]_vars

(***************************************************************************)
(* The page: FlightPathMap (map.js) with its MarkerManager (markers.js),   *)
(* from initializeApp() to the view calls the capture scripts make.        *)
(* Everything in the page runs on one thread: a stretch of code without an *)
(* await, or between two awaits, is one step.  The renderer (Mapbox GL JS) *)
(* is outside the repository: whether its flyTo ends the movement, and     *)
(* fires moveend, before it returns or in a later animation frame is left  *)
(* open.                                                                   *)
(***************************************************************************)
MaxViewCalls == 2

\* The markers createAllMarkers() creates, in its priority order AIRCRAFT,
\* CITIES, POI, STORY (one POI and one STORY marker stand for the four of each)
MarkerOrder == <<"aircraft", "cvg", "mco", "poi-1", "story-1">>

\* The centre and zoom a view call flies to
Target(view) ==
    IF view = "overview" THEN [center |-> "midpoint", zoom |-> 5]
    ELSE [center |-> "aircraft", zoom |-> 10]

MapInit ==
    /\ loadPc = "start"
    /\ map = FALSE
    /\ isInitialized = FALSE
    /\ markerManager = FALSE
    /\ markers = {}
    /\ nextMarker = 1
    /\ mapReady_sent = 0
    /\ camera = DefaultCamera
    /\ flying = "none"
    /\ listener = FALSE
    /\ call = NoCall
    /\ flyTos = 0
    /\ lost = 0
    /\ GateIdle
    /\ GeoIdle
    /\ DebouncerIdle
    /\ variant = "full"
    /\ token = "valid"
    /\ pc = "main"
    /\ idx = 1
    /\ retries = 0
    /\ attempts = 0
    /\ error = NoError
    /\ raised = NoError
    /\ mainError = NoError
    /\ exitCode = -1
    /\ returned = NoResult
    /\ cleanupFrom = "none"
    /\ browser = NoHandle
    /\ page = NoHandle
    /\ live = {}
    /\ open = {}
    /\ browserCloses = [h \in Handles |-> 0]
    /\ pageCloses = [h \in Handles |-> 0]
    /\ files = [f \in {"overview.png", "zoom.png"} |-> 0]
    /\ dirExists = TRUE
    /\ issued = {}
    /\ count = [launch |-> 0, goto |-> 0, view |-> 0, shot |-> 0, teardown |-> 0]
    /\ sinceFail = << >>
    /\ teardownThrew = FALSE
    /\ log = << >>
    /\ delays = << >>
    /\ viewport = NoViewport

RendererRest == <<capture, gate, geo, debouncer>>

(***************************************************************************)
(* initializeApp(): new FlightPathMap(); await initialize(); then          *)
(* window.flightPathMap is set.  initialize() creates the map and          *)
(* registers handleMapLoad for 'load'; when the token or mapboxgl is       *)
(* missing it catches its own error and this.map stays null.               *)
(***************************************************************************)
initializeApp ==
    /\ loadPc = "start"
    /\ \/ map' = TRUE /\ loadPc' = "created"
       \/ map' = FALSE /\ loadPc' = "initFailed"
    /\ UNCHANGED <<isInitialized, markerManager, markers, nextMarker, mapReady_sent,
                   camera, flying, listener, call, flyTos, lost>>
    /\ UNCHANGED RendererRest

(***************************************************************************)
(* handleMapLoad(), up to its await: this.markerManager = new              *)
(* MarkerManager(this.map), whose constructor computes the marker data,    *)
(* and the call of createAllMarkers().  An error thrown here is caught by  *)
(* the handler, which logs it and ends.                                    *)
(***************************************************************************)
handleMapLoad_start ==
    /\ loadPc = "created"
    /\ \/ /\ markerManager' = TRUE
          /\ loadPc' = "markers"
       \/ /\ markerManager' = markerManager
          /\ loadPc' = "failed"
    /\ nextMarker' = 1
    /\ UNCHANGED <<map, isInitialized, markers, mapReady_sent, camera, flying,
                   listener, call, flyTos, lost>>
    /\ UNCHANGED RendererRest

(***************************************************************************)
(* createAllMarkers(): await this.createMarker(marker) for the next marker *)
(* of the priority order.  createMarker stores the marker in this.markers  *)
(* and then adds it to its layer.  An error thrown by it, before or after  *)
(* the marker is stored, ends the loop: createAllMarkers catches it, shows *)
(* it and returns normally.                                                *)
(***************************************************************************)
createMarker ==
    /\ loadPc = "markers"
    /\ nextMarker <= Len(MarkerOrder)
    /\ \E outcome \in {"created", "threw", "storedThenThrew"} :
        /\ markers' = IF outcome = "threw" THEN markers
                      ELSE markers \cup {MarkerOrder[nextMarker]}
        /\ nextMarker' = IF outcome = "created" THEN nextMarker + 1
                         ELSE Len(MarkerOrder) + 1
    /\ UNCHANGED <<loadPc, map, isInitialized, markerManager, mapReady_sent, camera,
                   flying, listener, call, flyTos, lost>>
    /\ UNCHANGED RendererRest

\* Mutation of handleMapLoad_ready: createAllMarkers() is not awaited.
handleMapLoad_ready_NoAwait ==
    /\ loadPc = "markers"
    /\ isInitialized' = TRUE
    /\ mapReady_sent' = mapReady_sent + 1
    /\ loadPc' = "done"
    /\ nextMarker' = Len(MarkerOrder) + 1
    /\ UNCHANGED <<map, markerManager, markers, camera, flying, listener, call,
                   flyTos, lost>>
    /\ UNCHANGED RendererRest

(***************************************************************************)
(* handleMapLoad() after createAllMarkers() resolved: hideLoading();       *)
(* this.isInitialized = true; this.dispatchEvent('mapReady').              *)
(***************************************************************************)
handleMapLoad_ready ==
    /\ loadPc = "markers"
    /\ nextMarker > Len(MarkerOrder)
    /\ isInitialized' = TRUE
    /\ mapReady_sent' = mapReady_sent + 1
    /\ loadPc' = "done"
    /\ UNCHANGED <<map, markerManager, markers, nextMarker, camera, flying, listener,
                   call, flyTos, lost>>
    /\ UNCHANGED RendererRest

\* A view method is called: none is under way, and window.flightPathMap is set.
CanCall ==
    /\ loadPc /= "start"
    /\ call.at \in {"idle", "resolved", "rejected"}
    /\ call.n < MaxViewCalls

\* throw new Error(message), caught, logged and thrown again by the method
Throws(by, message) ==
    /\ call' = [by |-> by, at |-> "rejected", error |-> message, n |-> call.n + 1]
    /\ UNCHANGED <<camera, flying, listener, flyTos, lost>>

(***************************************************************************)
(* this.map.flyTo({center, zoom, duration: 2000, essential: true}).  The   *)
(* renderer either starts an animation, whose moveend comes in a later     *)
(* frame, or ends the movement before flyTo returns and fires moveend      *)
(* there; no listener of this call is registered yet.                      *)
(***************************************************************************)
FlyTo(by, view) ==
    /\ call' = [by |-> by, at |-> "called", error |-> "none", n |-> call.n + 1]
    /\ flyTos' = flyTos + 1
    /\ listener' = listener
    /\ \/ /\ flying' = view
          /\ UNCHANGED <<camera, lost>>
       \/ /\ flying' = "none"
          /\ camera' = Target(view)
          /\ lost' = lost + 1

\* FlightPathMap.setOverviewView(), up to the return of flyTo
FlightPathMap_setOverviewView ==
    /\ CanCall
    /\ IF ~isInitialized
       THEN Throws("setOverviewView", "Map not initialized")
       ELSE FlyTo("setOverviewView", "overview")
    /\ UNCHANGED <<loadPc, map, isInitialized, markerManager, markers, nextMarker,
                   mapReady_sent>>
    /\ UNCHANGED RendererRest

\* Mutation of FlightPathMap_setZoomView: flies to the configured centre when
\* there is no aircraft marker.
FlightPathMap_setZoomView_NoMarkerCheck ==
    /\ CanCall
    /\ IF ~isInitialized
       THEN Throws("setZoomView", "Map not initialized")
       ELSE FlyTo("setZoomView", "zoom")
    /\ UNCHANGED <<loadPc, map, isInitialized, markerManager, markers, nextMarker,
                   mapReady_sent>>
    /\ UNCHANGED RendererRest

\* FlightPathMap.setZoomView(), up to the return of flyTo
FlightPathMap_setZoomView ==
    /\ CanCall
    /\ IF ~isInitialized
       THEN Throws("setZoomView", "Map not initialized")
       ELSE IF "aircraft" \notin markers
       THEN Throws("setZoomView", "Aircraft marker not found")
       ELSE FlyTo("setZoomView", "zoom")
    /\ UNCHANGED <<loadPc, map, isInitialized, markerManager, markers, nextMarker,
                   mapReady_sent>>
    /\ UNCHANGED RendererRest

(***************************************************************************)
(* The function captureOverview() of capture.js evaluates in the page: if  *)
(* window.flightPathMap.map.flyTo is there, flyTo to the overview and      *)
(* once('moveend') in the same stretch of code; otherwise only a delay.    *)
(* isInitialized is not read.                                              *)
(***************************************************************************)
captureOverview_evaluate ==
    /\ CanCall
    /\ IF map
       THEN FlyTo("captureOverview", "overview")
       ELSE /\ call' = [by |-> "captureOverview", at |-> "tiles", error |-> "none",
                        n |-> call.n + 1]
            /\ UNCHANGED <<camera, flying, listener, flyTos, lost>>
    /\ UNCHANGED <<loadPc, map, isInitialized, markerManager, markers, nextMarker,
                   mapReady_sent>>
    /\ UNCHANGED RendererRest

(***************************************************************************)
(* this.map.once('moveend', resolve): the statement after flyTo.  In       *)
(* map.js an await of flyTo's return value stands between the two; it      *)
(* resumes in a microtask, before the renderer can run a frame.            *)
(***************************************************************************)
once_moveend ==
    /\ call.at = "called"
    /\ listener' = TRUE
    /\ call' = [call EXCEPT !.at = "moveend"]
    /\ UNCHANGED <<loadPc, map, isInitialized, markerManager, markers, nextMarker,
                   mapReady_sent, camera, flying, flyTos, lost>>
    /\ UNCHANGED RendererRest

\* Mutation of moveend: the animation can end while the view method has not
\* registered its listener yet (a timer between flyTo and once).
moveend_BeforeListener ==
    /\ flying /= "none"
    /\ camera' = Target(flying)
    /\ flying' = "none"
    /\ IF listener
       THEN listener' = FALSE /\ call' = [call EXCEPT !.at = "tiles"] /\ lost' = lost
       ELSE listener' = listener /\ call' = call /\ lost' = lost + 1
    /\ UNCHANGED <<loadPc, map, isInitialized, markerManager, markers, nextMarker,
                   mapReady_sent, flyTos>>
    /\ UNCHANGED RendererRest

(***************************************************************************)
(* The animation ends in a frame of the renderer: the camera is at the     *)
(* target and moveend fires; a registered listener runs once and resolves  *)
(* the wait of the view method.                                            *)
(***************************************************************************)
moveend ==
    /\ flying /= "none"
    /\ call.at /= "called"
    /\ camera' = Target(flying)
    /\ flying' = "none"
    /\ IF listener
       THEN listener' = FALSE /\ call' = [call EXCEPT !.at = "tiles"] /\ lost' = lost
       ELSE listener' = listener /\ call' = call /\ lost' = lost + 1
    /\ UNCHANGED <<loadPc, map, isInitialized, markerManager, markers, nextMarker,
                   mapReady_sent, flyTos>>
    /\ UNCHANGED RendererRest

\* await new Promise(resolve => setTimeout(resolve, tileLoadWait)); the method returns
tileLoadWait ==
    /\ call.at = "tiles"
    /\ call' = [call EXCEPT !.at = "resolved"]
    /\ UNCHANGED <<loadPc, map, isInitialized, markerManager, markers, nextMarker,
                   mapReady_sent, camera, flying, listener, flyTos, lost>>
    /\ UNCHANGED RendererRest

MapNext ==
    \/ initializeApp
    \/ handleMapLoad_start
    \/ createMarker
    \/ handleMapLoad_ready
    \/ FlightPathMap_setOverviewView
    \/ FlightPathMap_setZoomView
    \/ captureOverview_evaluate
    \/ once_moveend
    \/ moveend
    \/ tileLoadWait

MapSpec == MapInit /\ [][MapNext]_vars

(***************************************************************************)
(* debounce(func, wait) of utils.js, as the page uses it for the window's  *)
(* resize events: debounce(() => flightPathMap.map.resize(), 250).  Time   *)
(* is counted in ms.  A timer runs when it is due: time does not pass a    *)
(* pending timer, so a call is made either before the timer is due or      *)
(* after it has run.                                                       *)
(***************************************************************************)
debounceWaitMs == 250
DebounceStepMs == 100
MaxDebounceClockMs == 1000
MaxCalls == 4

\* What a call can pass to the debounced function
Args == {"a", "b"}

DebounceInit ==
    /\ timer = -1
    /\ pending = "none"
    /\ now = 0
    /\ called = << >>
    /\ ran = << >>
    /\ RendererIdle
    /\ GateIdle
    /\ GeoIdle
    /\ variant = "full"
    /\ token = "valid"
    /\ pc = "main"
    /\ idx = 1
    /\ retries = 0
    /\ attempts = 0
    /\ error = NoError
    /\ raised = NoError
    /\ mainError = NoError
    /\ exitCode = -1
    /\ returned = NoResult
    /\ cleanupFrom = "none"
    /\ browser = NoHandle
    /\ page = NoHandle
    /\ live = {}
    /\ open = {}
    /\ browserCloses = [h \in Handles |-> 0]
    /\ pageCloses = [h \in Handles |-> 0]
    /\ files = [f \in {"overview.png", "zoom.png"} |-> 0]
    /\ dirExists = TRUE
    /\ issued = {}
    /\ count = [launch |-> 0, goto |-> 0, view |-> 0, shot |-> 0, teardown |-> 0]
    /\ sinceFail = << >>
    /\ teardownThrew = FALSE
    /\ log = << >>
    /\ delays = << >>
    /\ viewport = NoViewport

DebouncerRest == <<capture, gate, geo, renderer>>

\* Mutation of executedFunction: a pending timer is left as it is.
executedFunction_KeepsTimer ==
    /\ Len(called) < MaxCalls
    /\ \E args \in Args :
        /\ pending' = IF timer = -1 THEN args ELSE pending
        /\ called' = Append(called, [at |-> now, args |-> args])
    /\ timer' = IF timer = -1 THEN now + debounceWaitMs ELSE timer
    /\ UNCHANGED <<now, ran>>
    /\ UNCHANGED DebouncerRest

(***************************************************************************)
(* executedFunction(...args), the function debounce returns:               *)
(* clearTimeout(timeout); timeout = setTimeout(later, wait), where later   *)
(* closes over the args of this call.                                      *)
(***************************************************************************)
executedFunction ==
    /\ Len(called) < MaxCalls
    /\ \E args \in Args :
        /\ pending' = args
        /\ called' = Append(called, [at |-> now, args |-> args])
    /\ timer' = now + debounceWaitMs
    /\ UNCHANGED <<now, ran>>
    /\ UNCHANGED DebouncerRest

\* later(): the timer is due; clearTimeout(timeout); func(...args)
later ==
    /\ timer /= -1
    /\ now' = timer
    /\ ran' = Append(ran, [at |-> timer, args |-> pending])
    /\ timer' = -1
    /\ pending' = "none"
    /\ UNCHANGED called
    /\ UNCHANGED DebouncerRest

\* Time passes, short of the time at which a pending timer is due.
elapse ==
    /\ now + DebounceStepMs <= MaxDebounceClockMs
    /\ timer = -1 \/ now + DebounceStepMs < timer
    /\ now' = now + DebounceStepMs
    /\ UNCHANGED <<timer, pending, called, ran>>
    /\ UNCHANGED DebouncerRest

DebounceNext ==
    \/ executedFunction
    \/ later
    \/ elapse

DebounceSpec == DebounceInit /\ [][DebounceNext]_vars

(***************************************************************************)
(* Properties                                                              *)
(***************************************************************************)
RunFailed == raised /= NoError
RunSucceeded == returned.kind \in {"paths", "true"}
ProgramEnded == pc = "exit"

\* C1: when every attempt fails, captureAllScreenshots starts exactly
\* maxRetries attempts, never fewer and never more, and then fails: no state
\* has more than maxRetries attempts, no attempt runs once retries reached
\* maxRetries, and the run has failed only after maxRetries attempts.
C1_ExactlyMaxAttempts ==
    /\ attempts <= maxRetries
    /\ retries = maxRetries => pc \notin {"try", "return", "cleanup", "delay"}
    /\ RunFailed => attempts = maxRetries /\ retries = maxRetries

C1_Witness == ProgramEnded /\ RunFailed /\ attempts = maxRetries /\ exitCode = 1

\* C2: after maxRetries consecutive failures the error raised by
\* captureAllScreenshots is the error of the last failed attempt itself.
C2_LastErrorPreserved ==
    RunFailed => raised = error /\ raised.attempt = attempts

\* C3: success short-circuits: when attempt k is the first to succeed exactly
\* k attempts were made (k - 1 failures), and once the result is returned no
\* attempt, browser launch, navigation, view change or screenshot follows.
C3_SuccessShortCircuits ==
    /\ [](RunSucceeded => attempts = retries + 1 /\ ~RunFailed)
    /\ [][RunSucceeded =>
            /\ attempts' = attempts
            /\ count' = count
            /\ returned' = returned
            /\ pc' \in {"mainFinally", "cleanup", "exit"}]_vars

C3_Witness == ProgramEnded /\ RunSucceeded /\ attempts = 2 /\ count.launch = 2

\* C4: whenever the program ends, by success or by failure after retry
\* exhaustion, every browser it launched has been closed.
\* (A browser counts as released as soon as close() was invoked on it, also
\* when that call threw.)
C4_ReleasedOnExit == ProgramEnded => \A h \in live : browserCloses[h] >= 1

\* C5: close is invoked at most once on any one browser and any one page.
C5_NoDoubleRelease ==
    \A h \in Handles : browserCloses[h] <= 1 /\ pageCloses[h] <= 1

\* C6: at every moment at most one browser is live (launched, not closed):
\* the browser of a failed attempt has been closed before the next attempt
\* launches its own.  (A browser on which close() was invoked counts as
\* closed, also when that call threw.)
C6_OneLiveSession == Cardinality({h \in live : browserCloses[h] = 0}) <= 1

\* C7: every attempt starts with initialize() and a fresh session: the first
\* step of an attempt is the launch, and every later step of the attempt
\* works on the browser and the page this attempt acquired, never on a
\* handle left by an earlier attempt.
C7_FreshSession ==
    pc = "try" =>
        /\ idx = 1 => Step.op = "launch"
        /\ idx = 2 => Step.op = "newPage"
        /\ idx >= 2 => browser = attempts /\ browser \in live
        /\ idx >= 3 => page = attempts /\ page \in open

C7_Witness ==
    /\ variant = "full"
    /\ attempts = 2
    /\ pc = "try"
    /\ idx >= 4
    /\ 1 \in live
    /\ pageCloses[1] = 1

\* C8: after a failed attempt that is not the last, the session is torn
\* down, then one delay elapses, then the next attempt starts; an error
\* thrown by the teardown is swallowed: the teardown is always followed by
\* the delay and the delay by the next attempt.
C8_TeardownDelayRetry ==
    /\ [][(attempts' = attempts + 1 /\ attempts >= 1) =>
             sinceFail = <<"teardown", "delay">>]_vars
    /\ [][(pc = "cleanup" /\ cleanupFrom = "retry") =>
             (pc' = "delay" /\ ~RunFailed')]_vars
    /\ [][pc = "delay" => (pc' = "while" /\ retries' < maxRetries)]_vars
    /\ [][(pc = "while" /\ sinceFail = <<"teardown", "delay">>) =>
             (pc' = "try" /\ attempts' = attempts + 1)]_vars

C8_Witness == teardownThrew /\ attempts >= 2 /\ pc = "try" /\ idx = 2

\* C9: within every attempt the overview capture strictly precedes the zoom
\* capture: whenever the attempt is at a step of the zoom capture, has
\* issued the zoom view change or has written zoom.png, it has already
\* written overview.png.
C9_OverviewBeforeZoom ==
    (\/ (pc = "try" /\ Step.view = "zoom")
     \/ "zoom" \in issued
     \/ (attempts >= 1 /\ files["zoom.png"] = attempts))
        => files["overview.png"] = attempts

C9_Witness ==
    /\ "zoom" \in issued
    /\ files["zoom.png"] = attempts
    /\ attempts = 2
    /\ pc = "return"

\* C10: when a run fails, no overview.png or zoom.png written by it remains.
C10_AllOrNothing ==
    (ProgramEnded /\ RunFailed) => \A f \in DOMAIN files : files[f] = 0

\* C11: a successful run produces exactly two capture results, overview and
\* zoom in that order, each carrying the path of its file: what
\* captureAllScreenshots returns on success is the pair of paths
\* {overview: .../overview.png, zoom: .../zoom.png}.
C11_TwoNamedResults ==
    RunSucceeded =>
        /\ returned.kind = "paths"
        /\ returned.overview = FileName("overview")
        /\ returned.zoom = FileName("zoom")

IsLog(i, op, view) == log[i].op = op /\ log[i].view = view

\* C12: a view change that finds the renderer handle unavailable, or that
\* throws, is the last thing its attempt does: the attempt fails there and
\* takes no screenshot of that view.
C12_ViewFailureAborts ==
    \A i \in 1..Len(log) :
        (log[i].op = "setView" /\ log[i].res \in {"unavailable", "threw"}) =>
            /\ i = Len(log)
            /\ pc /= "try"
            /\ \A j \in (i + 1)..Len(log) : ~IsLog(j, "screenshot", log[i].view)

\* C13: a screenshot of a view is taken only after the view change of that
\* view, in the same attempt, saw its moveend and let the additional delay
\* elapse.
C13_ShotOnlyAfterMoveend ==
    \A j \in 1..Len(log) :
        log[j].op = "screenshot" =>
            \E i \in 1..(j - 1) :
                IsLog(i, "setView", log[j].view) /\ log[i].res = "flown"

IsGate(i) == log[i].op = "waitForMapReady"

C15_TimeoutAtTimeoutMs ==
    /\ gStatus = "waiting" => gClock <= gateTimeoutMs
    /\ gStatus = "timeout" => gSettledAt = gateTimeoutMs

\* C16: an evaluation of checkMap before the timeout that finds all five
\* conditions to hold resolves the wait there and then, and a wait that has
\* resolved stays resolved whatever time passes.
C16_ResolvesAtThatPoll ==
    [][/\ (/\ gKind = "full"
           /\ gStatus = "waiting"
           /\ gPolls' = gPolls + 1
           /\ Required("full", 1) \subseteq gConds)
              => (gStatus' = "resolved" /\ gSettledAt' = gClock)
       /\ gStatus = "resolved" => gStatus' = "resolved"]_vars

C16_Witness ==
    /\ gKind = "full"
    /\ gStatus = "resolved"
    /\ gPolls >= 2
    /\ gSettledAt < gateTimeoutMs
    /\ gClock > gateTimeoutMs

C18_GateOnlyObserves ==
    [][(\/ gPolls' /= gPolls
        \/ gStatus' /= gStatus
        \/ gPhase' /= gPhase
        \/ gTimer' /= gTimer
        \/ gListening' /= gListening) => gConds' = gConds]_vars

C18_Witness ==
    /\ gStatus = "timeout"
    /\ gPolls > 2
    /\ gConds /= {}
    /\ gSeen /= gConds

\* C19: with a placeholder access token the program starts no capture
\* attempt and launches no browser.
C19_ConfigErrorFatal ==
    token = "placeholder" => (attempts = 0 /\ count.launch = 0)

C22_UIHiddenBeforeShot ==
    \A j \in 1..Len(log) :
        log[j].op = "screenshot" =>
            \E h \in 1..(j - 1) : IsLog(h, "hideMapUI", log[j].view) /\ log[h].res = "ok"

\* C23: whenever an attempt is about to navigate or to take a screenshot, the
\* viewport of its page is 1080 x 1920 at device scale factor 1, configured
\* by this attempt.
C23_ViewportBeforeUse ==
    (pc = "try" /\ Step.op \in {"goto", "screenshot"}) =>
        /\ viewport.width = 1080
        /\ viewport.height = 1920
        /\ viewport.deviceScaleFactor = 1
        /\ \E v \in 1..Len(log) : log[v].op = "setViewport" /\ log[v].res = "ok"

C23_Witness == AtStep("screenshot") /\ attempts = maxRetries /\ Step.view = "zoom"

\* C24: the screenshot directory exists whenever a screenshot is about to be
\* written; ensuring it creates it when it is missing, and leaves an
\* existing directory and the files in it as they are.
C24_EnsureDirectory ==
    /\ [](AtStep("screenshot") => dirExists)
    /\ [][AtStep("ensureScreenshotDirectory") =>
             /\ files' = files
             /\ dirExists => dirExists'
             /\ pc' = "try" => dirExists']_vars

C24_Witness ==
    /\ AtStep("screenshot")
    /\ Step.view = "zoom"
    /\ files["overview.png"] = attempts
    /\ attempts = 2
    /\ count.shot = 1

\* C25: the centre of the zoom view that the capture script asks the map for
\* has the longitude of the aircraft marker, that is, of
\* calculateAircraftPosition for the configured path and elapsed time (the
\* latitude is moved north on purpose).
C25_ZoomCentreFromCalculator ==
    applied = "captureZoom" =>
        result[1] = calculateAircraftPosition(point1, point2,
                                              argument[1], argument[2])[1]

\* C26: calculateIntermediatePoint(p, p, fraction) is p, exactly and for every
\* fraction: no division by the zero sin(d) has made it NaN.
C26_SamePointReturned ==
    (applied = "interpolate" /\ point1 = point2) =>
        /\ result = point1
        /\ result # NaNPoint

C26_Witness ==
    /\ applied = "interpolate"
    /\ point1 = MCO
    /\ point2 = MCO
    /\ argument = <<3 * (Scale \div 2)>>
    /\ result = MCO

\* C27: calculateAircraftPosition(start, end, timeFromStart, total) is
\* calculateIntermediatePoint(start, end, timeFromStart / total), for every
\* pair of points, elapsed time and flight time.
C27_PositionIsInterpolation ==
    applied = "positionAtTime" =>
        result = calculateIntermediatePoint(point1, point2,
                                            RoundDiv(argument[1] * Scale, argument[2]))

C27_Witness ==
    /\ applied = "positionAtTime"
    /\ point1 = CVG
    /\ point2 = MCO
    /\ argument = <<aircraftTimeFromCVG, totalFlightTime>>
    /\ result = <<-8458, 3883>>

\* Degrees and kilometres within which two results count as the same
ToleranceDeg == 2
ToleranceKm == 40

Near(p, q) == Abs(p[1] - q[1]) <= ToleranceDeg /\ Abs(p[2] - q[2]) <= ToleranceDeg

\* The length of a great circle, and the distance between two points of it
\* that are km apart along it
Circumference == RoundDiv(2 * Pi * earthRadius, Scale)
Around(km) ==
    LET k == km % Circumference
    IN  IF 2 * k > Circumference THEN Circumference - k ELSE k

\* C28: a fraction below 0 or above 1 is used as it is: the result is a
\* point of the great circle outside the arc between the endpoints, at
\* |fraction| times their distance from the start and |fraction - 1| times
\* their distance from the end, and is neither endpoint.
C28_FractionNotClamped ==
    (/\ applied = "interpolate"
     /\ point1 # point2
     /\ (argument[1] < 0 \/ argument[1] > Scale)) =>
        LET between == calculateGreatCircleDistance(point1, point2)
            fromStart == calculateGreatCircleDistance(point1, result)
            fromEnd == calculateGreatCircleDistance(point2, result)
        IN  /\ result # NaNPoint
            /\ ~Near(result, point1)
            /\ ~Near(result, point2)
            /\ Abs(fromStart - Around((Abs(argument[1]) * between) \div Scale))
                   <= ToleranceKm
            /\ Abs(fromEnd - Around((Abs(argument[1] - Scale) * between) \div Scale))
                   <= ToleranceKm

C28_Witness ==
    /\ applied = "interpolate"
    /\ point1 = CVG
    /\ point2 = MCO
    /\ argument = <<2 * Scale>>
    /\ result[2] < MCO[2] - 900

\* C29: calculateIntermediatePoint(p, q, 0) is p and
\* calculateIntermediatePoint(p, q, 1) is q, within ToleranceDeg hundredths
\* of a degree.
C29_EndpointsAtZeroAndOne ==
    applied = "interpolate" =>
        /\ argument = <<0>> => Near(result, point1)
        /\ argument = <<Scale>> => Near(result, point2)

C29_Witness ==
    /\ applied = "interpolate"
    /\ point1 = <<-12000, 4500>>
    /\ point2 = <<3000, -6000>>
    /\ argument = <<Scale>>
    /\ Near(result, <<3000, -6000>>)

\* C30: calculateGreatCircleDistance(p, q) is calculateGreatCircleDistance(q, p).
C30_DistanceSymmetric ==
    applied = "distance" =>
        result = <<calculateGreatCircleDistance(point2, point1)>>

C30_Witness ==
    /\ applied = "distance"
    /\ point1 = CVG
    /\ point2 = MCO
    /\ result = <<1216>>

\* C31: the counter of failed attempts is 0 at the start and, while an
\* attempt runs, the number of attempts that failed before it; it grows by
\* exactly one in the catch of each failed attempt and changes nowhere
\* else, so it never shrinks, and it never exceeds maxRetries.
C31_CounterMonotonicBounded ==
    /\ [](retries \in 0..maxRetries)
    /\ [](attempts = 0 => retries = 0)
    /\ [](pc \in {"try", "return"} => retries = attempts - 1)
    /\ [][pc = "catch" => retries' = retries + 1]_vars
    /\ [][pc /= "catch" => retries' = retries]_vars

C31_Witness == ProgramEnded /\ retries = maxRetries /\ attempts = maxRetries

\* C38: the retry loop calls cleanup() and waits once after every failed
\* attempt but the last allowed one: a run that used up its attempts made
\* maxRetries - 1 teardowns and maxRetries - 1 delays, and a run whose
\* attempt k succeeded made k - 1 of each.
C38_NoCycleAfterLastAttempt ==
    /\ count.teardown <= maxRetries - 1
    /\ Len(delays) <= maxRetries - 1
    /\ (ProgramEnded /\ retries = maxRetries) =>
           count.teardown = maxRetries - 1 /\ Len(delays) = maxRetries - 1
    /\ RunSucceeded =>
           count.teardown = attempts - 1 /\ Len(delays) = attempts - 1

C38_Witness ==
    /\ ProgramEnded
    /\ retries = maxRetries
    /\ count.teardown = maxRetries - 1
    /\ Len(delays) = maxRetries - 1
    /\ exitCode = 1

\* C34: cleanup() never throws; a cleanup() that closed the page and the
\* browser leaves both handles cleared; and a cleanup() that finds the page
\* and the browser closed already invokes no close() and changes nothing of
\* the session.
C34_CleanupIdempotent ==
    /\ [][pc = "cleanup" => pc' \in {"delay", "exit"} /\ raised' = raised]_vars
    /\ [][(pc = "cleanup" /\ browser /= NoHandle /\ browser \in live
                          /\ browser \notin live' /\ page \notin open') =>
             (page' = NoHandle /\ browser' = NoHandle)]_vars
    /\ [][(pc = "cleanup" /\ browser \notin live /\ page \notin open) =>
             UNCHANGED session]_vars

\* C35: once the wait of capture.js for the map is over, resolved or timed
\* out, no further evaluation of checkMap is scheduled, and none runs.
C35_PollingStops ==
    /\ [](gKind = "full" /\ gStatus \in {"resolved", "timeout"} => gPollAt = -1)
    /\ [][gKind = "full" /\ gStatus \in {"resolved", "timeout"} =>
             gPolls' = gPolls]_vars


\* A view method was called, and this step is its first: the call is counted.
Called(by) == call'.n = call.n + 1 /\ call'.by = by

\* The step issues no view change and leaves the map's centre and zoom alone.
NoViewChange == flyTos' = flyTos /\ camera' = camera /\ flying' = flying

\* C33: whenever isInitialized is true the aircraft marker is in the marker
\* manager, so a setZoomView() called after mapReady was dispatched never fails
\* with 'Aircraft marker not found'.
C33_AircraftMarkerWhenInitialized ==
    /\ isInitialized => "aircraft" \in markers
    /\ (mapReady_sent > 0 /\ call.by = "setZoomView")
          => call.error /= "Aircraft marker not found"

\* C36: setOverviewView() and setZoomView() called while isInitialized is false
\* throw 'Map not initialized'; setZoomView() called while isInitialized is true
\* and there is no aircraft marker throws 'Aircraft marker not found'; a call
\* that throws issues no flyTo and leaves the map's centre and zoom as they were.
C36_GuardsRejectWithoutViewChange ==
    /\ [][(Called("setOverviewView") \/ Called("setZoomView")) /\ ~isInitialized
            => call'.at = "rejected" /\ call'.error = "Map not initialized"
               /\ NoViewChange]_vars
    /\ [][Called("setZoomView") /\ isInitialized /\ "aircraft" \notin markers
            => call'.at = "rejected" /\ call'.error = "Aircraft marker not found"
               /\ NoViewChange]_vars
    /\ [][(call.at /= "rejected" \/ call'.n /= call.n) /\ call'.at = "rejected"
            => NoViewChange]_vars

C36_Witness ==
    /\ call.by = "setZoomView"
    /\ call.at = "rejected"
    /\ call.error = "Aircraft marker not found"
    /\ call.n = 2
    /\ isInitialized
    /\ flyTos = 0
    /\ camera = DefaultCamera

\* C37: mapReady is dispatched only once isInitialized is true; isInitialized
\* becomes true only when createAllMarkers() has finished; a load handler that
\* fails leaves isInitialized false and dispatches no mapReady.
C37_ReadyAfterInitialized ==
    /\ [][mapReady_sent' /= mapReady_sent
            => isInitialized' /\ mapReady_sent' = mapReady_sent + 1]_vars
    /\ [](mapReady_sent > 0 => isInitialized)
    /\ [][~isInitialized /\ isInitialized'
            => loadPc = "markers" /\ nextMarker > Len(MarkerOrder)]_vars
    /\ [](loadPc \in {"initFailed", "failed"} => ~isInitialized /\ mapReady_sent = 0)

C37_Witness ==
    /\ loadPc = "done"
    /\ isInitialized
    /\ mapReady_sent = 1
    /\ markers = {MarkerOrder[i] : i \in 1..Len(MarkerOrder)}


\* C32: the moveend of a view change is never lost: whenever the renderer fires
\* it, even before flyTo has returned, the listener of the view method is
\* registered already, so the method's wait for moveend ends.
C32_MoveendNeverLost ==
    /\ lost = 0
    /\ call.at = "moveend" => flying /= "none"

\* C32, amended: a moveend the renderer fires after flyTo has returned finds the
\* listener registered and ends the wait of the view method; a moveend is lost
\* only when it is fired inside flyTo, and only then does a wait never end.
C32_MoveendAfterReturnNotLost ==
    /\ [][flying /= "none" /\ flying' = "none"
            => /\ listener /\ ~listener'
               /\ call.at = "moveend" /\ call'.at = "tiles"
               /\ lost' = lost]_vars
    /\ [][lost' /= lost => flyTos' = flyTos + 1 /\ lost' = lost + 1]_vars
    /\ [](call.at = "moveend" /\ flying = "none" => lost > 0)

C32_Witness ==
    /\ call.by = "setZoomView"
    /\ call.at = "resolved"
    /\ call.n = 2
    /\ flyTos = 2
    /\ lost = 0
    /\ camera = Target("zoom")


\* The last call made before time t (0: none)
LastCallBefore(t) ==
    LET before == {k \in 1..Len(called) : called[k].at < t}
    IN  IF before = {} THEN 0 ELSE CHOOSE k \in before : \A j \in before : j <= k

\* Call k is the last of its burst and the burst is over: the next call came
\* debounceWaitMs or more after it, or none came and no timer is pending.
BurstEndsWith(k) ==
    IF k = Len(called) THEN timer = -1
    ELSE called[k + 1].at - called[k].at >= debounceWaitMs

\* The runs of func that belong to call k
RunsFor(k) == {i \in 1..Len(ran) : ran[i].at = called[k].at + debounceWaitMs}

\* C39: for every burst of calls of the debounced function, each less than wait
\* after the one before, func runs exactly once, wait after the last call of
\* the burst and with that call's arguments; it runs at no other time.
C39_DebounceRunsOncePerBurst ==
    /\ \A k \in 1..Len(called) :
          BurstEndsWith(k) =>
             /\ Cardinality(RunsFor(k)) = 1
             /\ \A i \in RunsFor(k) : ran[i].args = called[k].args
    /\ \A i \in 1..Len(ran) :
          /\ LastCallBefore(ran[i].at) /= 0
          /\ BurstEndsWith(LastCallBefore(ran[i].at))
          /\ i \in RunsFor(LastCallBefore(ran[i].at))
    /\ Len(ran) = Cardinality({k \in 1..Len(called) : BurstEndsWith(k)})
    /\ timer /= -1 =>
          /\ timer = called[Len(called)].at + debounceWaitMs
          /\ pending = called[Len(called)].args

C39_Witness ==
    /\ Len(called) = 4
    /\ called[1].args = "a"
    /\ called[2].at > called[1].at
    /\ called[3].at > called[2].at
    /\ called[3].args = "b"
    /\ called[4].at >= called[3].at + debounceWaitMs
    /\ ran = << [at |-> called[3].at + debounceWaitMs, args |-> "b"],
                [at |-> called[4].at + debounceWaitMs, args |-> called[4].args] >>

====
